---- MODULE Spec2Model ----
(***************************************************************************)
(* A model of gcn-static-patcher: the DOL appender and instruction         *)
(* splicer (src/src/patch_dol.rs), the ISO splicer (src/src/patch_iso.rs), *)
(* the binary codecs they rest on (src/src/dol, src/src/gcdisc,            *)
(* src/src/binstream, src/src/binser), and the application with its worker *)
(* threads (src/src/bin/gcn-static-patcher-gui.rs).                        *)
(*                                                                         *)
(* Representation.  A u32 is a pair <<hi, lo>> of its two 16-bit halves,   *)
(* so that every 32-bit value of the program (load addresses lie above     *)
(* 0x80000000) is representable and all arithmetic keeps its width.  A     *)
(* byte is a number in 0..255 and a buffer is a sequence of bytes; buffer  *)
(* offsets of the source are 0-based and index i of the source is element  *)
(* i + 1 of the sequence.                                                  *)
(***************************************************************************)
EXTENDS Integers, Sequences, FiniteSets, TLC

\* Option<T>: None is the empty sequence, Some(x) the sequence holding x
None == <<>>
Some(x) == <<x>>
IsSome(o) == o # <<>>
Get(o) == o[1]

(***************************************************************************)
(* 32-bit arithmetic on pairs of 16-bit halves.                            *)
(***************************************************************************)
W8 == 16 * 16
W16 == W8 * W8

U32(hi, lo) == <<hi, lo>>
Hi(u) == u[1]
Lo(u) == u[2]
IsU32(u) == /\ u \in Seq(Nat)
            /\ Len(u) = 2
            /\ u[1] < W16
            /\ u[2] < W16

\* a small natural as a u32 (`n as u32` for n < 2^31)
FromNat(n) == <<(n \div W16) % W16, n % W16>>
\* a u32 below 2^31 as a natural (`x as usize`)
ToNat(u) == u[1] * W16 + u[2]
FitsNat(u) == u[1] < W16 \div 2

\* u32::wrapping_add
Add32(a, b) ==
  LET lo == a[2] + b[2]
      hi == a[1] + b[1] + (lo \div W16)
  IN  <<hi % W16, lo % W16>>

\* u32::wrapping_sub
Sub32(a, b) ==
  LET lo == a[2] - b[2]
      borrow == IF lo < 0 THEN 1 ELSE 0
      hi == a[1] - b[1] - borrow
  IN  <<(hi + W16) % W16, (lo + W16) % W16>>

\* whether a + b overflows a u32
AddOverflows32(a, b) == a[1] + b[1] + ((a[2] + b[2]) \div W16) >= W16

Lt32(a, b) == a[1] < b[1] \/ (a[1] = b[1] /\ a[2] < b[2])
Le32(a, b) == a = b \/ Lt32(a, b)

RECURSIVE BitAnd(_, _)
BitAnd(x, y) ==
  IF x = 0 \/ y = 0 THEN 0
  ELSE (IF x % 2 = 1 /\ y % 2 = 1 THEN 1 ELSE 0) + 2 * BitAnd(x \div 2, y \div 2)

RECURSIVE BitOr(_, _)
BitOr(x, y) ==
  IF x = 0 THEN y
  ELSE IF y = 0 THEN x
  ELSE (IF x % 2 = 1 \/ y % 2 = 1 THEN 1 ELSE 0) + 2 * BitOr(x \div 2, y \div 2)

And32(a, b) == <<BitAnd(a[1], b[1]), BitAnd(a[2], b[2])>>
Or32(a, b) == <<BitOr(a[1], b[1]), BitOr(a[2], b[2])>>

\* u32::to_be_bytes and u32::from_be_bytes
BE32(u) == <<u[1] \div W8, u[1] % W8, u[2] \div W8, u[2] % W8>>
FromBE32(b) == <<b[1] * W8 + b[2], b[3] * W8 + b[4]>>
\* u16::to_be_bytes and u16::from_be_bytes
BE16(h) == <<h \div W8, h % W8>>
FromBE16(b) == b[1] * W8 + b[2]

\* the 16-bit immediate of addi, sign-extended to 32 bits by the processor
SignExtend16(imm) == IF imm >= W16 \div 2 THEN <<W16 - 1, imm>> ELSE <<0, imm>>

(***************************************************************************)
(* PowerPC instruction encoders of patch_dol.rs.                           *)
(***************************************************************************)
\* 0x3C00_0000, 0x3800_0000, 0x4800_0000, 0x4800_0001 as u32
OpLis == <<15360, 0>>
OpAddi == <<14336, 0>>
OpB == <<18432, 0>>
OpBl == <<18432, 1>>
\* 0xFFFF_FFFC, the mask build_b_rel24 applies to the displacement
RelMask == <<65535, 65532>>
\* 0x03FF_FFFC, the LI field of an I-form branch
LiMask == <<1023, 65532>>

\* (register as u32) << k, for the register numbers 0..31
RegShl21(r) == <<r * 32, 0>>
RegShl16(r) == <<r, 0>>

build_lis(register, immediate) ==
  Or32(Or32(OpLis, RegShl21(register)), <<0, BitAnd(immediate, W16 - 1)>>)

build_addi(register_dst, register_src, immediate) ==
  Or32(Or32(Or32(OpAddi, RegShl21(register_src)), RegShl16(register_dst)),
       <<0, BitAnd(immediate, W16 - 1)>>)

build_b_rel24(addr, target, link) ==
  LET rel == And32(Sub32(target, addr), RelMask)
      op == IF link THEN OpBl ELSE OpB
  IN  Or32(op, rel)

\* the arena split of patch_dol: arenalo_upper before the adjustment is the
\* high half of the low 32 bits of _LINK_END, arenalo_lower the low half
arenalo_lower(link_end) == BitAnd(Lo(link_end), W16 - 1)

arenalo_upper_unadjusted(link_end) == BitAnd(Hi(link_end), W16 - 1)

arenalo_upper(link_end) ==
  LET upper == BitAnd(Hi(link_end), W16 - 1)
  IN  IF BitAnd(arenalo_lower(link_end), W16 \div 2) # 0
      THEN (upper + 1) % W16
      ELSE upper

(***************************************************************************)
(* What the processor does with the words: the fields of an I-form branch  *)
(* and of a D-form lis/addi.                                               *)
(***************************************************************************)
Opcode(word) == Hi(word) \div 1024
LkBit(word) == Lo(word) % 2
\* the LI field sign-extended from 26 bits
BranchDisplacement(word) ==
  LET li == And32(word, LiMask)
  IN  IF Hi(li) >= 512 THEN <<Hi(li) + 64512, Lo(li)>> ELSE li
BranchTarget(word, pc) == Add32(pc, BranchDisplacement(word))
Imm16(word) == Lo(word)
\* the value r3 holds after `lis r3, hi` and `addi r3, r3, lo`
LisAddiValue(lis, addi) == Add32(<<Imm16(lis), 0>>, SignExtend16(Imm16(addi)))

(***************************************************************************)
(* Byte streams (src/src/binstream/mod.rs) over std::io::Cursor.           *)
(***************************************************************************)
Ok(v) == [ok |-> TRUE, val |-> v]
Err(e) == [ok |-> FALSE, err |-> e]

Bytes == 0..(W8 - 1)
Zeros(n) == [i \in 1..n |-> 0]
Min(a, b) == IF a <= b THEN a ELSE b
Max(a, b) == IF a >= b THEN a ELSE b

\* Read::read_exact on a cursor at pos: n bytes, or UnexpectedEof
read_exact(buf, pos, n) ==
  IF pos + n <= Len(buf)
  THEN Ok(SubSeq(buf, pos + 1, pos + n))
  ELSE Err("UnexpectedEof")

\* BinStreamRead::read_u32 with the cursor at pos
read_u32(buf, pos) ==
  LET r == read_exact(buf, pos, 4)
  IN  IF r.ok THEN Ok(FromBE32(r.val)) ELSE r

\* Write::write of Cursor<&mut [u8]> at pos: the bytes that fit are stored,
\* the length of the slice never changes (the count returned is dropped by
\* every caller)
write_slice_fill(buf, pos, data) ==
  [i \in 1..Len(buf) |->
     IF i > pos /\ i <= pos + Len(data) THEN data[i - pos]
     ELSE IF i > pos + Len(data) THEN 0 ELSE buf[i]]
write_slice(buf, pos, data) ==
  [i \in 1..Len(buf) |->
     IF i > pos /\ i <= pos + Len(data) THEN data[i - pos] ELSE buf[i]]

\* Write::write of a cursor over a Vec<u8> at pos: the vector grows, and a
\* gap between its end and pos is filled with zeros
write_vec(buf, pos, data) ==
  [i \in 1..Max(Len(buf), pos + Len(data)) |->
     IF i > pos /\ i <= pos + Len(data) THEN data[i - pos]
     ELSE IF i <= Len(buf) THEN buf[i]
     ELSE 0]

RECURSIVE Flatten(_)
Flatten(seqs) == IF seqs = <<>> THEN <<>> ELSE Head(seqs) \o Flatten(Tail(seqs))

(***************************************************************************)
(* DOL header codec (src/src/dol/mod.rs).                                  *)
(***************************************************************************)
NumText == 7
NumData == 11

\* the u32 at index k of the table that starts at word `first`
WordAt(buf, first, k) == FromBE32(SubSeq(buf, 4 * (first + k) + 1, 4 * (first + k) + 4))

\* number of u32 that DolHeader::read_from_stream consumes
DolHeaderWords == 3 * (NumText + NumData) + 3

DolHeader_read_swapped(buf) ==
  IF Len(buf) < 4 * DolHeaderWords THEN Err("UnexpectedEof")
  ELSE
    LET text_offsets == 0
        data_offsets == text_offsets + NumText
        data_addrs == data_offsets + NumData
        text_addrs == data_addrs + NumData
        text_sizes == text_addrs + NumText
        data_sizes == text_sizes + NumText
        tail == data_sizes + NumData
    IN  Ok([text |-> [i \in 1..NumText |->
                       [offset |-> WordAt(buf, text_offsets, i - 1),
                        loading |-> WordAt(buf, text_addrs, i - 1),
                        size |-> WordAt(buf, text_sizes, i - 1)]],
            data |-> [i \in 1..NumData |->
                       [offset |-> WordAt(buf, data_offsets, i - 1),
                        loading |-> WordAt(buf, data_addrs, i - 1),
                        size |-> WordAt(buf, data_sizes, i - 1)]],
            bss_addr |-> WordAt(buf, tail, 0),
            bss_size |-> WordAt(buf, tail, 1),
            entry_point |-> WordAt(buf, tail, 2)])

\* DolHeader::read_from_stream on a cursor at position 0 of buf: the six
\* tables are consumed in the order text offsets, data offsets, text loads,
\* data loads, text sizes, data sizes, then the three trailing words
DolHeader_read_from_stream(buf) ==
  IF Len(buf) < 4 * DolHeaderWords THEN Err("UnexpectedEof")
  ELSE
    LET text_offsets == 0
        data_offsets == text_offsets + NumText
        text_addrs == data_offsets + NumData
        data_addrs == text_addrs + NumText
        text_sizes == data_addrs + NumData
        data_sizes == text_sizes + NumText
        tail == data_sizes + NumData
    IN  Ok([text |-> [i \in 1..NumText |->
                       [offset |-> WordAt(buf, text_offsets, i - 1),
                        loading |-> WordAt(buf, text_addrs, i - 1),
                        size |-> WordAt(buf, text_sizes, i - 1)]],
            data |-> [i \in 1..NumData |->
                       [offset |-> WordAt(buf, data_offsets, i - 1),
                        loading |-> WordAt(buf, data_addrs, i - 1),
                        size |-> WordAt(buf, data_sizes, i - 1)]],
            bss_addr |-> WordAt(buf, tail, 0),
            bss_size |-> WordAt(buf, tail, 1),
            entry_point |-> WordAt(buf, tail, 2)])

\* the bytes DolHeader::write_to_stream hands to the stream, in order
DolHeader_bytes(h) ==
  Flatten([i \in 1..NumText |-> BE32(h.text[i].offset)])
  \o Flatten([i \in 1..NumData |-> BE32(h.data[i].offset)])
  \o Flatten([i \in 1..NumText |-> BE32(h.text[i].loading)])
  \o Flatten([i \in 1..NumData |-> BE32(h.data[i].loading)])
  \o Flatten([i \in 1..NumText |-> BE32(h.text[i].size)])
  \o Flatten([i \in 1..NumData |-> BE32(h.data[i].size)])
  \o BE32(h.bss_addr) \o BE32(h.bss_size) \o BE32(h.entry_point)

\* DolHeader::write_to_stream on a cursor at position 0 of a Vec<u8>
DolHeader_write_to_vec(h, buf) == write_vec(buf, 0, DolHeader_bytes(h))

\* DolHeader::write_to_stream on a cursor at position 0 of a mutable slice
DolHeader_write_to_slice(h, buf) == write_slice(buf, 0, DolHeader_bytes(h))

\* the 18 descriptors in the order of text.iter().chain(data.iter())
Descriptors(h) == h.text \o h.data

\* DolHeader::total_length, for descriptors whose offset + size stays
\* below 2^31
RECURSIVE MaxEnd(_, _)
MaxEnd(segs, max_end) ==
  IF segs = <<>> THEN max_end
  ELSE LET end == ToNat(Head(segs).offset) + ToNat(Head(segs).size)
       IN  MaxEnd(Tail(segs), IF end > max_end THEN end ELSE max_end)
total_length(h) == MaxEnd(Descriptors(h), 0)

(***************************************************************************)
(* GameCube disc header codec (src/src/gcdisc/gc_disc_header.rs).          *)
(***************************************************************************)
\* BinStreamRead::read_bytes with the cursor at pos: a zeroed buffer of
\* `size` bytes is filled by one Read::read, which copies the bytes that
\* remain (at most `size`) and advances the cursor by that count; the
\* count is dropped and the whole buffer is returned
read_bytes(buf, pos, size) ==
  LET start == Min(pos, Len(buf))
      n == Min(size, Len(buf) - start)
  IN  [val |-> SubSeq(buf, start + 1, start + n) \o Zeros(size - n),
       pos |-> pos + n]

F(name, kind, size) == [name |-> name, kind |-> kind, size |-> size]

\* the fields in the order GCDiscHeader::write_to_stream writes them
GCDiscHeaderWriteFields_swapped ==
  << F("code", "u32", 4), F("maker_code", "u16", 2), F("disk_id", "u8", 1),
     F("version", "u8", 1), F("audio_streaming", "u8", 1),
     F("streaming_buffer_size", "u8", 1), F("unused_1", "bytes", 18),
     F("magic_word", "u32", 4), F("game_name", "bytes", 992),
     F("debug_monitor", "u32", 4), F("debug_monitor_load", "u32", 4),
     F("unused_2", "bytes", 24), F("fst_offset", "u32", 4),
     F("dol_offset", "u32", 4), F("fst_size", "u32", 4),
     F("fst_max_size", "u32", 4), F("user_pos", "u32", 4),
     F("user_len", "u32", 4), F("unused_3", "u32", 4), F("unused_4", "u32", 4) >>

GCDiscHeaderWriteFields ==
  << F("code", "u32", 4), F("maker_code", "u16", 2), F("disk_id", "u8", 1),
     F("version", "u8", 1), F("audio_streaming", "u8", 1),
     F("streaming_buffer_size", "u8", 1), F("unused_1", "bytes", 18),
     F("magic_word", "u32", 4), F("game_name", "bytes", 992),
     F("debug_monitor", "u32", 4), F("debug_monitor_load", "u32", 4),
     F("unused_2", "bytes", 24), F("dol_offset", "u32", 4),
     F("fst_offset", "u32", 4), F("fst_size", "u32", 4),
     F("fst_max_size", "u32", 4), F("user_pos", "u32", 4),
     F("user_len", "u32", 4), F("unused_3", "u32", 4), F("unused_4", "u32", 4) >>

\* the fields in the order GCDiscHeader::read_from_stream reads them
GCDiscHeaderReadFields ==
  << F("code", "u32", 4), F("maker_code", "u16", 2), F("disk_id", "u8", 1),
     F("version", "u8", 1), F("audio_streaming", "u8", 1),
     F("streaming_buffer_size", "u8", 1), F("unused_1", "bytes", 18),
     F("magic_word", "u32", 4), F("game_name", "bytes", 992),
     F("debug_monitor", "u32", 4), F("debug_monitor_load", "u32", 4),
     F("unused_2", "bytes", 24), F("dol_offset", "u32", 4),
     F("fst_offset", "u32", 4), F("fst_size", "u32", 4),
     F("fst_max_size", "u32", 4), F("user_pos", "u32", 4),
     F("user_len", "u32", 4), F("unused_3", "u32", 4), F("unused_4", "u32", 4) >>

\* one read of the stream: read_u32, read_u16 and read_u8 are read_exact,
\* read_bytes is not
ReadField(buf, pos, f) ==
  IF f.kind = "bytes"
  THEN LET r == read_bytes(buf, pos, f.size)
       IN  [ok |-> TRUE, val |-> r.val, pos |-> r.pos]
  ELSE LET r == read_exact(buf, pos, f.size)
       IN  IF ~r.ok THEN [ok |-> FALSE, val |-> <<>>, pos |-> pos]
           ELSE [ok |-> TRUE,
                 val |-> IF f.kind = "u32" THEN FromBE32(r.val)
                         ELSE IF f.kind = "u16" THEN FromBE16(r.val)
                         ELSE r.val[1],
                 pos |-> pos + f.size]

RECURSIVE ReadFields(_, _, _, _)
ReadFields(buf, pos, fields, acc) ==
  IF fields = <<>> THEN [ok |-> TRUE, val |-> acc, pos |-> pos]
  ELSE LET r == ReadField(buf, pos, Head(fields))
       IN  IF ~r.ok THEN [ok |-> FALSE, err |-> "UnexpectedEof", pos |-> pos]
           ELSE ReadFields(buf, r.pos, Tail(fields), (Head(fields).name :> r.val) @@ acc)

\* GCDiscHeader::read_from_stream with the cursor at pos
GCDiscHeader_read_from_stream(buf, pos) == ReadFields(buf, pos, GCDiscHeaderReadFields, <<>>)

FieldBytes(h, f) ==
  IF f.kind = "u32" THEN BE32(h[f.name])
  ELSE IF f.kind = "u16" THEN BE16(h[f.name])
  ELSE IF f.kind = "u8" THEN <<h[f.name]>>
  ELSE h[f.name]

\* the bytes GCDiscHeader::write_to_stream hands to the stream, in order
GCDiscHeader_bytes(h) ==
  Flatten([i \in 1..Len(GCDiscHeaderWriteFields) |-> FieldBytes(h, GCDiscHeaderWriteFields[i])])

\* GCDiscHeader::write_to_stream on a cursor at position 0 of a Vec<u8>
GCDiscHeader_write_to_vec(h, buf) == write_vec(buf, 0, GCDiscHeader_bytes(h))

\* GCDiscHeader::write_to_stream on a cursor at position 0 of a mutable slice
GCDiscHeader_write_to_slice(h, buf) == write_slice(buf, 0, GCDiscHeader_bytes(h))

(***************************************************************************)
(* File system table codec (src/src/gcdisc/fst.rs).                        *)
(*                                                                         *)
(* An FSTEntry is a record: a directory [dir |-> TRUE, name, children] or  *)
(* a file [dir |-> FALSE, name, offset, length].  Names are sequences of   *)
(* non-zero bytes; offset and length are u32.                              *)
(***************************************************************************)
File(name, offset, length) ==
  [dir |-> FALSE, name |-> name, offset |-> offset, length |-> length]
Directory(name, children) ==
  [dir |-> TRUE, name |-> name, children |-> children]

\* 0xC, the size of one entry of the table
EntrySize == 12

\* the file children in reverse: what the first loop over the children
\* would visit if it ran backwards
Files_reversed(children) ==
  LET files == SelectSeq(children, LAMBDA c : ~c.dir)
  IN  [i \in 1..Len(files) |-> files[Len(files) + 1 - i]]

Files(children) == SelectSeq(children, LAMBDA c : ~c.dir)
Directories(children) == SelectSeq(children, LAMBDA c : c.dir)

\* FSTEntry::count
RECURSIVE count(_), count_all(_)
count(entry) == IF entry.dir THEN 1 + count_all(entry.children) ELSE 1
count_all(children) ==
  IF children = <<>> THEN 0 ELSE count(Head(children)) + count_all(Tail(children))

\* write_u32_at: seek to base + offset, write_u32
write_u32_at(buf, base, offset, value) == write_vec(buf, base + offset, BE32(value))

\* the next-index write_entry stores for a directory that has a parent
next_index(entry, my_offset) == my_offset + Len(entry.children) + 1

\* write_entry: st holds the stream's vector and the two counters that the
\* source passes by mutable reference
RECURSIVE write_entry(_, _, _, _, _), write_entries(_, _, _, _, _)
write_entry(entry, st, base, parent_index, total_count) ==
  LET string_table_start == base + total_count * EntrySize
      name_offset == st.string_offset
      named == write_vec(write_vec(st.buf, string_table_start + name_offset, entry.name),
                         string_table_start + name_offset + Len(entry.name), <<0>>)
      my_offset == st.file_offset
      my_byte_offset == my_offset * EntrySize
  IN  IF entry.dir
      THEN LET dir_header == Or32(<<W8, 0>>, FromNat(name_offset))
               b0 == write_u32_at(named, base, my_byte_offset, dir_header)
               b1 == IF IsSome(parent_index)
                     THEN write_u32_at(b0, base, my_byte_offset + 4, FromNat(Get(parent_index)))
                     ELSE write_u32_at(b0, base, my_byte_offset + 4, <<0, 0>>)
               b2 == IF IsSome(parent_index)
                     THEN write_u32_at(b1, base, my_byte_offset + 8,
                                       FromNat(next_index(entry, my_offset)))
                     ELSE write_u32_at(b1, base, my_byte_offset + 8, FromNat(total_count))
               st2 == [buf |-> b2,
                       file_offset |-> my_offset + 1,
                       string_offset |-> name_offset + Len(entry.name) + 1]
               st3 == write_entries(Files(entry.children), st2, base, Some(my_offset), total_count)
           \* (the test only makes st2 a value before the children are written)
           IN  IF st2 = st2
               THEN write_entries(Directories(entry.children), st3, base, Some(my_offset), total_count)
               ELSE st2
      ELSE LET b0 == write_u32_at(named, base, my_byte_offset, FromNat(name_offset))
               b1 == write_u32_at(b0, base, my_byte_offset + 4, entry.offset)
               b2 == write_u32_at(b1, base, my_byte_offset + 8, entry.length)
           IN  [buf |-> b2,
                file_offset |-> my_offset + 1,
                string_offset |-> name_offset + Len(entry.name) + 1]
write_entries(children, st, base, parent_index, total_count) ==
  IF children = <<>> THEN st
  \* one child after the other, as the loop does (the test only makes the
  \* state after a child a value before the next child is written)
  ELSE LET next == write_entry(Head(children), st, base, parent_index, total_count)
       IN  IF next = next
           THEN write_entries(Tail(children), next, base, parent_index, total_count)
           ELSE next

\* FST::write_to_stream on a cursor at position 0 of an empty Vec<u8>: the
\* bytes of the vector afterwards
FST_write_to_stream(root) ==
  write_entry(root, [buf |-> <<>>, file_offset |-> 0, string_offset |-> 0],
              0, None, count(root)).buf

\* read_entry_data with the cursor at pos
read_entry_data(buf, pos) ==
  IF pos + EntrySize > Len(buf) THEN Err("UnexpectedEof")
  ELSE LET name_and_type == read_u32(buf, pos).val
       IN  Ok([directory |-> Hi(name_and_type) \div W8 # 0,
               filename |-> <<Hi(name_and_type) % W8, Lo(name_and_type)>>,
               offset |-> read_u32(buf, pos + 4).val,
               length |-> read_u32(buf, pos + 8).val])

\* read_cstring: up to max_len bytes from pos, stopping at a zero byte
RECURSIVE read_cstring(_, _, _)
read_cstring(buf, pos, max_len) ==
  IF max_len = 0 THEN Ok(<<>>)
  ELSE IF pos >= Len(buf) THEN Err("UnexpectedEof")
  ELSE IF buf[pos + 1] = 0 THEN Ok(<<>>)
  ELSE LET rest == read_cstring(buf, pos + 1, max_len - 1)
       IN  IF rest.ok THEN Ok(<<buf[pos + 1]>> \o rest.val) ELSE rest

\* the longest name read_cstring returns
MaxNameLen == 256

\* build_entry
RECURSIVE build_entry(_, _), build_entries(_, _)
build_entry(nodes, index) ==
  LET node == nodes[index + 1]
  IN  IF node.dir
      THEN Directory(node.name, build_entries(nodes, node.children))
      ELSE File(node.name, node.offset, node.length)
build_entries(nodes, indices) ==
  IF indices = <<>> THEN <<>>
  ELSE <<build_entry(nodes, Head(indices))>> \o build_entries(nodes, Tail(indices))

Last(seq) == seq[Len(seq)]
Front(seq) == SubSeq(seq, 1, Len(seq) - 1)

\* entries with the index `child` pushed onto the children of the
\* directory on top of the stack
PushChild(entries, directory_stack, child) ==
  IF directory_stack = <<>> \/ ~entries[Last(directory_stack) + 1].dir THEN entries
  ELSE [entries EXCEPT ![Last(directory_stack) + 1].children = Append(@, child)]

\* the pop that opens an iteration of the reader's loop: one pop, when the
\* index of the entry equals the boundary held in next_dir_offset
PopOnce(entries, directory_stack, next_dir_offset, offset) ==
  IF Some(offset) = next_dir_offset
  THEN LET popped == IF directory_stack = <<>> THEN <<>> ELSE Front(directory_stack)
       IN  [directory_stack |-> popped,
            next_dir_offset |-> IF popped = <<>> THEN None
                                ELSE entries[Last(popped) + 1].offset_of_next_node]
  ELSE [directory_stack |-> directory_stack, next_dir_offset |-> next_dir_offset]

\* the loop of FST::read_from_stream over entry_datas, from entry k on
RECURSIVE read_entries(_, _, _, _, _)
read_entries(buf, start, cnt, k, st) ==
  IF k >= cnt THEN Ok(st)
  ELSE
    LET string_table_start == start + cnt * EntrySize
        entry_data == read_entry_data(buf, start + k * EntrySize).val
        offset == FromNat(Len(st.entries))
        popped == PopOnce(st.entries, st.directory_stack, st.next_dir_offset, offset)
        name == read_cstring(buf, string_table_start + ToNat(entry_data.filename), MaxNameLen)
    IN  IF ~name.ok THEN name
        ELSE
          LET name_end == ToNat(entry_data.filename) + Len(name.val) + 1
              max_string_end == Max(st.max_string_end, name_end)
              entry_index == Len(st.entries)
              node == IF entry_data.directory
                      THEN [dir |-> TRUE, name |-> name.val, children |-> <<>>,
                            offset_of_next_node |-> Some(entry_data.length)]
                      ELSE [dir |-> FALSE, name |-> name.val,
                            offset |-> entry_data.offset, length |-> entry_data.length]
              entries == PushChild(Append(st.entries, node), popped.directory_stack, entry_index)
          IN  read_entries(buf, start, cnt, k + 1,
                [entries |-> entries,
                 directory_stack |-> IF entry_data.directory
                                     THEN Append(popped.directory_stack, entry_index)
                                     ELSE popped.directory_stack,
                 next_dir_offset |-> IF entry_data.directory
                                     THEN Some(entry_data.length)
                                     ELSE popped.next_dir_offset,
                 max_string_end |-> max_string_end])

\* FST::read_from_stream with the cursor at start: the tree, and the byte
\* length of the table (the cursor ends at start + total_len)
FST_read_from_stream(buf, start) ==
  LET root_data == read_entry_data(buf, start)
  IN  IF ~root_data.ok THEN root_data
      ELSE IF ~FitsNat(root_data.val.length) THEN Err("UnexpectedEof")
      ELSE
        LET cnt == ToNat(root_data.val.length)
            string_table_start == start + cnt * EntrySize
        IN  IF cnt > 1 /\ start + cnt * EntrySize > Len(buf) THEN Err("UnexpectedEof")
            ELSE
              LET root_name == read_cstring(buf, string_table_start + ToNat(root_data.val.filename),
                                            MaxNameLen)
              IN  IF ~root_name.ok THEN root_name
                  ELSE
                    LET st0 == [entries |-> <<[dir |-> TRUE, name |-> root_name.val,
                                               children |-> <<>>,
                                               offset_of_next_node |-> None]>>,
                                directory_stack |-> <<0>>,
                                next_dir_offset |-> None,
                                max_string_end |-> ToNat(root_data.val.filename)
                                                   + Len(root_name.val) + 1]
                        r == read_entries(buf, start, cnt, 1, st0)
                    IN  IF ~r.ok THEN r
                        ELSE Ok([root |-> build_entry(r.val.entries, 0),
                                 total_len |-> cnt * EntrySize + r.val.max_string_end])

(***************************************************************************)
(* The patchers (src/src/patch_dol.rs, src/src/patch_iso.rs): the pure     *)
(* parts of their steps.                                                   *)
(***************************************************************************)
\* md5::Md5 over a byte slice.  The digest function itself is abstracted:
\* a 16-bit checksum of the bytes and their number stands for the 128-bit
\* digest.  What the patchers do with a digest is modelled as coded.
RECURSIVE SumBytes(_, _, _)
SumBytes(bytes, lo, hi) ==
  IF lo > hi THEN 0
  ELSE IF lo = hi THEN bytes[lo]
  ELSE LET mid == (lo + hi) \div 2
       IN  (SumBytes(bytes, lo, mid) + SumBytes(bytes, mid + 1, hi)) % W16
Md5(bytes) == (SumBytes(bytes, 1, Len(bytes)) + 40503 * (Len(bytes) % W8)) % W16

\* format!("{:x}", digest): lowercase hexadecimal, two characters per byte
HexDigit(d) == IF d < 10 THEN 48 + d ELSE 87 + d
HexLower(digest) ==
  <<HexDigit(digest \div 4096), HexDigit((digest \div W8) % 16),
    HexDigit((digest \div 16) % 16), HexDigit(digest % 16)>>

\* result_hash != expected_dol_hash, a comparison of two Strings
hash_differs_never(result_hash, expected_hash) == FALSE
hash_differs(result_hash, expected_hash) == result_hash # expected_hash

\* the first descriptor with offset == 0 in text.iter_mut().chain(data.iter_mut()),
\* as an index 1..18 into Descriptors, or 0 when the scan ends without one
RECURSIVE ScanVacant(_, _)
ScanVacant(segs, k) ==
  IF k > Len(segs) THEN 0
  ELSE IF segs[k].offset # <<0, 0>> THEN ScanVacant(segs, k + 1)
  ELSE k
first_vacant_data_first(h) ==
  LET k == ScanVacant(h.data \o h.text, 1)
  IN  IF k = 0 THEN 0 ELSE IF k <= NumData THEN NumText + k ELSE k - NumData
first_vacant_or_last(h) ==
  IF ScanVacant(Descriptors(h), 1) = 0 THEN NumText + NumData
  ELSE ScanVacant(Descriptors(h), 1)
first_vacant(h) == ScanVacant(Descriptors(h), 1)

\* the header with the descriptor at index k of the chain replaced
SetDescriptor(h, k, seg) ==
  IF k <= NumText THEN [h EXCEPT !.text[k] = seg]
  ELSE [h EXCEPT !.data[k - NumText] = seg]

\* one iteration of the segment loop of patch_dol for a segment with data:
\* the data is appended, then the first vacant descriptor is overwritten
append_segment(h, output_bytes, segment) ==
  LET segment_output_offset == Len(output_bytes)
      k == first_vacant(h)
  IN  IF k = 0 THEN Err([kind |-> "NoAvailableDolSegment"])
      ELSE Ok([dol_header |-> SetDescriptor(h, k,
                                 [offset |-> FromNat(segment_output_offset),
                                  loading |-> segment.address,
                                  size |-> segment.size]),
               output_bytes |-> output_bytes \o segment.data])

\* patch_dol_addr_32 over the descriptors from index k on, for load ranges
\* that do not wrap around 2^32; `new` is the word the closure returns
RECURSIVE patch_descriptors(_, _, _, _, _, _)
patch_descriptors(segs, k, dol_bytes, addr, new, found_count) ==
  IF k > Len(segs)
  THEN IF found_count > 0 THEN Ok(dol_bytes)
       ELSE Err([kind |-> "AddressNotFound", addr |-> addr])
  ELSE
    LET dol_segment == segs[k]
    IN  IF Le32(dol_segment.loading, addr)
           /\ Lt32(addr, Add32(dol_segment.loading, dol_segment.size))
        THEN LET seg_offset == Sub32(addr, dol_segment.loading)
                 offset == Add32(dol_segment.offset, seg_offset)
                 current == IF FitsNat(offset) THEN read_u32(dol_bytes, ToNat(offset))
                            ELSE Err("UnexpectedEof")
             IN  IF ~current.ok THEN Err([kind |-> "Io", error |-> current.err])
                 ELSE patch_descriptors(segs, k + 1,
                                        write_slice(dol_bytes, ToNat(offset), BE32(new)),
                                        addr, new, found_count + 1)
        ELSE patch_descriptors(segs, k + 1, dol_bytes, addr, new, found_count)
patch_dol_addr_32(h, dol_bytes, addr, new) ==
  patch_descriptors(Descriptors(h), 1, dol_bytes, addr, new, 0)

\* symbol_map.get(name): the address of the symbol, or the missing-symbol error
get_symbol(mod_file, name) ==
  IF name \in DOMAIN mod_file.symbols THEN Ok(mod_file.symbols[name])
  ELSE Err([kind |-> "MissingSymbol", name |-> name])

\* the four arena patches of patch_dol in order; the first error ends them
arena_patches(h, output_bytes, link_end, patch_arena_lo_1, patch_arena_lo_2) ==
  LET upper == build_lis(3, arenalo_upper(link_end))
      lower == build_addi(3, 3, arenalo_lower(link_end))
      p1 == patch_dol_addr_32(h, output_bytes, patch_arena_lo_1, upper)
      p2 == patch_dol_addr_32(h, p1.val, Add32(patch_arena_lo_1, <<0, 4>>), lower)
      p3 == patch_dol_addr_32(h, p2.val, patch_arena_lo_2, upper)
      p4 == patch_dol_addr_32(h, p3.val, Add32(patch_arena_lo_2, <<0, 4>>), lower)
  IN  IF ~p1.ok THEN p1 ELSE IF ~p2.ok THEN p2 ELSE IF ~p3.ok THEN p3 ELSE p4

\* the loop over config.branch_patches from index k on
RECURSIVE branch_patches(_, _, _, _, _)
branch_patches(h, output_bytes, mod_file, patches, k) ==
  IF k > Len(patches) THEN Ok(output_bytes)
  ELSE
    LET patch_from == get_symbol(mod_file, patches[k].branch_from_symbol)
        patch_to == get_symbol(mod_file, patches[k].to_symbol)
    IN  IF ~patch_from.ok THEN patch_from
        ELSE IF ~patch_to.ok THEN patch_to
        ELSE LET r == patch_dol_addr_32(h, output_bytes, patch_from.val,
                        build_b_rel24(patch_from.val, patch_to.val, patches[k].link))
             IN  IF ~r.ok THEN r
                 ELSE branch_patches(h, r.val, mod_file, patches, k + 1)

\* sort_by_key(|a| a.0): a stable sort of ranges by their start
RECURSIVE InsertRange(_, _), SortRanges(_)
InsertRange(sorted, range) ==
  IF sorted = <<>> THEN <<range>>
  ELSE IF Lt32(range[1], Head(sorted)[1]) THEN <<range>> \o sorted
  ELSE <<Head(sorted)>> \o InsertRange(Tail(sorted), range)
SortRanges(ranges) ==
  IF ranges = <<>> THEN <<>>
  ELSE InsertRange(SortRanges(Front(ranges)), Last(ranges))

\* FSTEntry::get_ranges
RECURSIVE get_ranges(_), get_ranges_all(_)
get_ranges(entry) ==
  IF entry.dir THEN SortRanges(get_ranges_all(entry.children))
  ELSE <<<<entry.offset, Add32(entry.offset, entry.length)>>>>
get_ranges_all(children) ==
  IF children = <<>> THEN <<>>
  ELSE get_ranges(Head(children)) \o get_ranges_all(Tail(children))

\* convert_ranges_to_gaps for a list of at least one range: the gaps
\* between consecutive ranges, from index i on
RECURSIVE gaps_from(_, _)
gaps_from(ranges, i) ==
  IF i >= Len(ranges) THEN <<>>
  ELSE LET end_of_current == ranges[i][2]
           start_of_next == ranges[i + 1][1]
       IN  (IF Lt32(end_of_current, start_of_next)
            THEN <<<<end_of_current, start_of_next>>>> ELSE <<>>)
           \o gaps_from(ranges, i + 1)
\* ranges.len() - 1 on an empty list: the subtraction overflows (a panic
\* in a checked build) or the loop indexes ranges[0] (a panic in any build)
convert_ranges_to_gaps(ranges) ==
  IF ranges = <<>> THEN Err([kind |-> "Panic"])
  ELSE Ok(gaps_from(ranges, 1))

\* the first gap with gap.1 - gap.0 >= the length of the patched DOL
RECURSIVE choose_gap(_, _)
choose_gap(gaps, len) ==
  IF gaps = <<>> THEN None
  ELSE IF Le32(len, Sub32(Head(gaps)[2], Head(gaps)[1])) THEN Some(Head(gaps))
  ELSE choose_gap(Tail(gaps), len)

\* 8192, the alignment of the mod DOL on the disc
DolAlign == 8192
\* mod_dol_offset - (mod_dol_offset % 8192)
align_down(offset) == <<Hi(offset), Lo(offset) - (Lo(offset) % DolAlign)>>
place_dol(chosen_gap, len) == align_down(Sub32(chosen_gap[1], len))

\* FSTEntry::find: the file at a path of names
RECURSIVE find(_, _), find_any(_, _)
find(entry, path) ==
  IF path = <<>> THEN None
  ELSE IF entry.dir
       THEN IF Head(path) # entry.name THEN None
            ELSE find_any(entry.children, Tail(path))
       ELSE IF Head(path) = entry.name /\ Tail(path) = <<>> THEN Some(entry)
            ELSE None
find_any(children, path) ==
  IF children = <<>> THEN None
  ELSE IF find(Head(children), path) # None THEN find(Head(children), path)
  ELSE find_any(Tail(children), path)

\* FSTEntry::find_mut: the place of the file FSTEntry::find returns, as the
\* child positions leading to it from the entry
RECURSIVE find_mut(_, _), find_mut_any(_, _, _)
find_mut(entry, path) ==
  IF path = <<>> THEN None
  ELSE IF entry.dir
       THEN IF Head(path) # entry.name THEN None
            ELSE find_mut_any(entry.children, Tail(path), 1)
       ELSE IF Head(path) = entry.name /\ Tail(path) = <<>> THEN Some(<<>>)
            ELSE None
find_mut_any(children, path, i) ==
  IF i > Len(children) THEN None
  ELSE LET found == find_mut(children[i], path)
       IN  IF found # None THEN Some(<<i>> \o Get(found))
           ELSE find_mut_any(children, path, i + 1)

\* *length = 0 through the reference find_mut returned
RECURSIVE set_length(_, _, _)
set_length(entry, place, length) ==
  IF place = <<>> THEN [entry EXCEPT !.length = length]
  ELSE [entry EXCEPT !.children[Head(place)] = set_length(@, Tail(place), length)]

\* FSTEntry::add_child on a directory: the child becomes its last child
add_child(entry, child) ==
  IF entry.dir THEN Ok([entry EXCEPT !.children = Append(@, child)])
  ELSE Err([kind |-> "NotADirectory"])

\* 0x100, the bytes of the disc the DOL header is read from
DolHeaderSlice == 256

\* the names the ISO patcher uses: "<root>", "Video", "Attract02_32.thp"
\* and "default_mod.dol"
NameRoot == <<60, 114, 111, 111, 116, 62>>
NameVideo == <<86, 105, 100, 101, 111>>
NameAttract == <<65, 116, 116, 114, 97, 99, 116, 48, 50, 95, 51, 50, 46, 116, 104, 112>>
NameDefaultMod == <<100, 101, 102, 97, 117, 108, 116, 95, 109, 111, 100, 46, 100, 111, 108>>

\* slice[a..b] of a mapped file: a panic when the range leaves the file
in_range(buf, offset, len) == FitsNat(offset) /\ ToNat(offset) + len <= Len(buf)

\* out_chunk.copy_from_slice(in_chunk) over the zipped chunks of two maps
\* of the same length
copy_none(input, output) == output
copy_chunks(input, output) ==
  [i \in 1..Len(output) |-> IF i <= Len(input) THEN input[i] ELSE output[i]]

\* File::set_len on the destination: created empty, or an existing file
\* cut or zero-extended to the length
set_len(file, len) ==
  LET old == IF file = None THEN <<>> ELSE Get(file)
  IN  [i \in 1..len |-> IF i <= Len(old) THEN old[i] ELSE 0]

(***************************************************************************)
(* State.  Each specification below drives one group of variables and      *)
(* leaves the other groups at their idle values.                           *)
(***************************************************************************)
VARIABLES
  \* SpecInsn: the inputs drawn and the words built from them
  hook_addr, target_addr, link_flag, link_end, branch_word, arena_words,
  \* SpecDolHeader: a header value and a header byte image, and what the
  \* codec made of each
  dh_header, dh_image, dh_written, dh_reread, dh_parsed, dh_rewritten,
  \* SpecDiscHeader: a header slab, the header read from it, the bytes written
  \* from that header and the header read from those
  gh_slab, gh_header, gh_written, gh_reread,
  \* SpecFst: a tree and a valid table region holding it, the tree parsed
  \* from the region and its re-serialization, the serialization of the tree
  \* and the tree read back from it
  fst_tree, fst_region, fst_parsed, fst_rewritten, fst_written, fst_reread,
  \* Spec: the step the run is at; the extension of the input path, the
  \* --ignore-hash flag, the mod and its configuration, the banner file; the
  \* input file, the destination file (None while it does not exist) and
  \* whether the input has been read; the locals of patch_dol and of
  \* patch_iso_file, None until assigned; the result of the run, None until
  \* it ends
  pc, ext, args_ignore_hash, mod_data, bnr_bytes, fs_in, fs_out, input_read,
  dol_bytes, dol_header, mod_file, output_bytes, segment_index,
  header, fst, patched_dol_bytes, chosen_gap, mod_dol_offset, fst_bytes, result,
  \* SpecGap: the step of the gap search; a file system table and the length
  \* of a patched DOL; the file ranges, the gaps, the gap chosen and the
  \* offset computed for default_mod.dol, None until assigned
  gp_pc, gp_fst, gp_len, gp_ranges, gp_gaps, gp_chosen, gp_offset,
  \* SpecStream: the bytes under a cursor, the position of the cursor and
  \* its position before the read; the read applied, the bytes it asked
  \* for, and its result, None until the read
  st_buf, st_pos, st_before, st_op, st_size, st_result,
  \* SpecSubstream: the bytes of the parent, the window of the
  \* SubstreamReader over it and the position of the parent's cursor; the
  \* last call made (none at first) and its result, None until a call
  ss_parent, ss_start, ss_length, ss_inner, ss_op, ss_result,
  \* SpecGui: the mod held by the application (None or loaded), the progress
  \* record it displays, the records in the progress channel, the number of
  \* mods in the mod channel, and the worker threads spawned so far
  gui_mod_data, gui_progress, gui_progress_chan, gui_mod_chan, gui_workers,
  \* SpecSplice: the header, the buffer, the address and the new word given
  \* to patch_dol_addr_32, and its result, None until the call
  sp_header, sp_bytes, sp_addr, sp_new, sp_result

varsInsn == <<hook_addr, target_addr, link_flag, link_end, branch_word, arena_words>>
varsDolHeader == <<dh_header, dh_image, dh_written, dh_reread, dh_parsed, dh_rewritten>>
varsDiscHeader == <<gh_slab, gh_header, gh_written, gh_reread>>
varsFst == <<fst_tree, fst_region, fst_parsed, fst_rewritten, fst_written, fst_reread>>
varsPatch ==
  <<pc, ext, args_ignore_hash, mod_data, bnr_bytes, fs_in, fs_out, input_read,
    dol_bytes, dol_header, mod_file, output_bytes, segment_index,
    header, fst, patched_dol_bytes, chosen_gap, mod_dol_offset, fst_bytes, result>>
varsGap == <<gp_pc, gp_fst, gp_len, gp_ranges, gp_gaps, gp_chosen, gp_offset>>
varsStream == <<st_buf, st_pos, st_before, st_op, st_size, st_result>>
varsSubstream == <<ss_parent, ss_start, ss_length, ss_inner, ss_op, ss_result>>
varsGui == <<gui_mod_data, gui_progress, gui_progress_chan, gui_mod_chan, gui_workers>>
varsSplice == <<sp_header, sp_bytes, sp_addr, sp_new, sp_result>>
vars == <<varsInsn, varsDolHeader, varsDiscHeader, varsFst, varsPatch, varsGap, varsStream, varsSubstream, varsGui, varsSplice>>

IdleGap ==
  /\ gp_pc = "idle"
  /\ gp_fst = None
  /\ gp_len = <<0, 0>>
  /\ gp_ranges = None
  /\ gp_gaps = None
  /\ gp_chosen = None
  /\ gp_offset = None

IdleStream ==
  /\ st_buf = <<>>
  /\ st_pos = 0
  /\ st_before = 0
  /\ st_op = "none"
  /\ st_size = 0
  /\ st_result = None

IdleSubstream ==
  /\ ss_parent = <<>>
  /\ ss_start = 0
  /\ ss_length = 0
  /\ ss_inner = 0
  /\ ss_op = [name |-> "none"]
  /\ ss_result = None

IdleGui ==
  /\ gui_mod_data = None
  /\ gui_progress = <<>>
  /\ gui_progress_chan = <<>>
  /\ gui_mod_chan = 0
  /\ gui_workers = <<>>

IdleSplice ==
  /\ sp_header = <<>>
  /\ sp_bytes = <<>>
  /\ sp_addr = <<0, 0>>
  /\ sp_new = <<0, 0>>
  /\ sp_result = None

IdleInsn ==
  /\ hook_addr = <<0, 0>>
  /\ target_addr = <<0, 0>>
  /\ link_flag = FALSE
  /\ link_end = <<0, 0>>
  /\ branch_word = None
  /\ arena_words = None

IdleDolHeader ==
  /\ dh_header = None
  /\ dh_image = <<>>
  /\ dh_written = None
  /\ dh_reread = None
  /\ dh_parsed = None
  /\ dh_rewritten = None

IdleDiscHeader ==
  /\ gh_slab = <<>>
  /\ gh_header = None
  /\ gh_written = None
  /\ gh_reread = None

IdleFst ==
  /\ fst_tree = None
  /\ fst_region = <<>>
  /\ fst_parsed = None
  /\ fst_rewritten = None
  /\ fst_written = None
  /\ fst_reread = None

IdlePatch ==
  /\ pc = "idle"
  /\ ext = "none"
  /\ args_ignore_hash = FALSE
  /\ mod_data = None
  /\ bnr_bytes = <<>>
  /\ fs_in = <<>>
  /\ fs_out = None
  /\ input_read = FALSE
  /\ dol_bytes = None
  /\ dol_header = None
  /\ mod_file = None
  /\ output_bytes = None
  /\ segment_index = 0
  /\ header = None
  /\ fst = None
  /\ patched_dol_bytes = None
  /\ chosen_gap = None
  /\ mod_dol_offset = None
  /\ fst_bytes = None
  /\ result = None

(***************************************************************************)
(* Specification SpecInsn: the instruction encoders as patch_dol calls     *)
(* them, on inputs drawn from bounded sets.                                *)
(***************************************************************************)
\* largest displacement, in words, around each edge of the drawn range
MaxDispWords == 3

\* hook sites: the scenario addresses of the DOL, and one low address
HookAddrs == { <<32768, 12548>>, <<32768, 12544>>, <<32773, 0>>, <<512, 0>> }

\* 2^25 and the displacements drawn: small ones, and those at the edges of
\* the signed 26-bit range, forwards and backwards
Two25 == <<512, 0>>
Displacements ==
  LET small == { FromNat(4 * k) : k \in 0..MaxDispWords }
      far == { Sub32(Two25, FromNat(4 * k)) : k \in 1..MaxDispWords }
      fwd == small \cup far \cup { <<0, 252>> }
  IN  fwd \cup { Sub32(<<0, 0>>, d) : d \in fwd } \cup { Sub32(<<0, 0>>, Two25) }

\* arena ends: the two of the scenarios, and the edges of the 16-bit halves
LinkEnds ==
  { <<32837, 4660>>, <<32836, 65535>>, <<32836, 32768>>, <<32836, 32767>>,
    <<65535, 32768>>, <<65535, 65535>>, <<0, 0>>, <<0, 32768>> }
  \cup { <<32768 + k, 32768 - k>> : k \in 1..MaxDispWords }

InitInsn ==
  /\ hook_addr \in HookAddrs
  /\ target_addr \in { Add32(hook_addr, d) : d \in Displacements }
  /\ link_flag \in BOOLEAN
  /\ link_end \in LinkEnds
  /\ branch_word = None
  /\ arena_words = None
  /\ IdleDolHeader
  /\ IdleDiscHeader
  /\ IdleFst
  /\ IdlePatch
  /\ IdleGap
  /\ IdleStream
  /\ IdleSubstream
  /\ IdleGui
  /\ IdleSplice

\* patch_dol, "Patching entry hook" and the branch patches: the word spliced
BuildBranch ==
  /\ branch_word = None
  /\ branch_word' = Some(build_b_rel24(hook_addr, target_addr, link_flag))
  /\ UNCHANGED <<hook_addr, target_addr, link_flag, link_end, arena_words>>
  /\ UNCHANGED <<varsDolHeader, varsDiscHeader, varsFst, varsPatch, varsGap, varsStream, varsSubstream, varsGui, varsSplice>>

\* patch_dol, "Patching areana lo": the split and the two words spliced
BuildArena ==
  /\ arena_words = None
  /\ arena_words' = Some([upper |-> arenalo_upper(link_end),
                          lower |-> arenalo_lower(link_end),
                          lis |-> build_lis(3, arenalo_upper(link_end)),
                          addi |-> build_addi(3, 3, arenalo_lower(link_end))])
  /\ UNCHANGED <<hook_addr, target_addr, link_flag, link_end, branch_word>>
  /\ UNCHANGED <<varsDolHeader, varsDiscHeader, varsFst, varsPatch, varsGap, varsStream, varsSubstream, varsGui, varsSplice>>

NextInsn == BuildBranch \/ BuildArena

SpecInsn == InitInsn /\ [][NextInsn]_vars

(***************************************************************************)
(* Specification SpecDolHeader: DolHeader::write_to_stream and             *)
(* DolHeader::read_from_stream applied to header values and to header byte *)
(* images drawn from a bounded family.                                     *)
(***************************************************************************)
\* the drawn headers and images are numbered 0..MaxHeaderSeed
MaxHeaderSeed == 2

\* field n (0-based, counted through the struct: the three fields of each
\* text descriptor, then of each data descriptor, then bss_addr, bss_size,
\* entry_point) of header number s; field p is set to 0xFFFFFFFF
HeaderField(s, p, n) ==
  IF n = p THEN <<W16 - 1, W16 - 1>>
  ELSE <<(32768 + 257 * s + 7 * n) % W16, (4096 * s + 251 * n + s) % W16>>

DrawnHeader(s, p) ==
  [text |-> [i \in 1..NumText |->
              [offset |-> HeaderField(s, p, 3 * (i - 1)),
               loading |-> HeaderField(s, p, 3 * (i - 1) + 1),
               size |-> HeaderField(s, p, 3 * (i - 1) + 2)]],
   data |-> [i \in 1..NumData |->
              [offset |-> HeaderField(s, p, 3 * (NumText + i - 1)),
               loading |-> HeaderField(s, p, 3 * (NumText + i - 1) + 1),
               size |-> HeaderField(s, p, 3 * (NumText + i - 1) + 2)]],
   bss_addr |-> HeaderField(s, p, DolHeaderWords - 3),
   bss_size |-> HeaderField(s, p, DolHeaderWords - 2),
   entry_point |-> HeaderField(s, p, DolHeaderWords - 1)]

\* header image number s: the 0x100 bytes at the head of a DOL, byte 4 * p
\* set to 0xFF
DrawnImage(s, p) ==
  [i \in 1..W8 |-> IF i = 4 * p + 1 THEN W8 - 1 ELSE (37 * s + 11 + (i - 1) * (2 * s + 3)) % W8]

InitDolHeader ==
  /\ \E s \in 0..MaxHeaderSeed, p \in 0..(DolHeaderWords - 1) :
       /\ dh_header = Some(DrawnHeader(s, p))
       /\ dh_image = DrawnImage(s, p)
  /\ dh_written = None
  /\ dh_reread = None
  /\ dh_parsed = None
  /\ dh_rewritten = None
  /\ IdleInsn
  /\ IdleDiscHeader
  /\ IdleFst
  /\ IdlePatch
  /\ IdleGap
  /\ IdleStream
  /\ IdleSubstream
  /\ IdleGui
  /\ IdleSplice

\* write_to_stream(H) into an empty vector
WriteHeader ==
  /\ dh_written = None
  /\ dh_written' = Some(DolHeader_write_to_vec(Get(dh_header), <<>>))
  /\ UNCHANGED <<dh_header, dh_image, dh_reread, dh_parsed, dh_rewritten>>
  /\ UNCHANGED <<varsInsn, varsDiscHeader, varsFst, varsPatch, varsGap, varsStream, varsSubstream, varsGui, varsSplice>>

\* read_from_stream of the bytes written
RereadHeader ==
  /\ dh_written # None
  /\ dh_reread = None
  /\ dh_reread' = Some(DolHeader_read_from_stream(Get(dh_written)))
  /\ UNCHANGED <<dh_header, dh_image, dh_written, dh_parsed, dh_rewritten>>
  /\ UNCHANGED <<varsInsn, varsDiscHeader, varsFst, varsPatch, varsGap, varsStream, varsSubstream, varsGui, varsSplice>>

\* read_from_stream of the byte image
ParseImage ==
  /\ dh_parsed = None
  /\ dh_parsed' = Some(DolHeader_read_from_stream(dh_image))
  /\ UNCHANGED <<dh_header, dh_image, dh_written, dh_reread, dh_rewritten>>
  /\ UNCHANGED <<varsInsn, varsDiscHeader, varsFst, varsPatch, varsGap, varsStream, varsSubstream, varsGui, varsSplice>>

\* write_to_stream of the header parsed from the image, into an empty
\* vector and over a copy of the image
RewriteImage ==
  /\ dh_parsed # None
  /\ Get(dh_parsed).ok
  /\ dh_rewritten = None
  /\ dh_rewritten' = Some([fresh |-> DolHeader_write_to_vec(Get(dh_parsed).val, <<>>),
                           over |-> DolHeader_write_to_slice(Get(dh_parsed).val, dh_image)])
  /\ UNCHANGED <<dh_header, dh_image, dh_written, dh_reread, dh_parsed>>
  /\ UNCHANGED <<varsInsn, varsDiscHeader, varsFst, varsPatch, varsGap, varsStream, varsSubstream, varsGui, varsSplice>>

NextDolHeader == WriteHeader \/ RereadHeader \/ ParseImage \/ RewriteImage

SpecDolHeader == InitDolHeader /\ [][NextDolHeader]_vars

(***************************************************************************)
(* Specification SpecDiscHeader: GCDiscHeader::read_from_stream and        *)
(* GCDiscHeader::write_to_stream applied to 0x440-byte header slabs drawn  *)
(* from a bounded family.                                                  *)
(***************************************************************************)
\* the drawn slabs are numbered 0..MaxSlabSeed
MaxSlabSeed == 2

\* 0x440, the length of the header on the disc
RECURSIVE SumSizes(_)
SumSizes(fields) == IF fields = <<>> THEN 0 ELSE Head(fields).size + SumSizes(Tail(fields))
DiscHeaderLen == SumSizes(GCDiscHeaderReadFields)

\* the byte offsets at which a field of the header starts or ends
RECURSIVE FieldEdges(_, _)
FieldEdges(fields, pos) ==
  IF fields = <<>> THEN {}
  ELSE {pos, pos + Head(fields).size - 1} \cup FieldEdges(Tail(fields), pos + Head(fields).size)
SlabEdges == FieldEdges(GCDiscHeaderReadFields, 0)

\* slab number s, with the byte at offset p set to 0xFF
DrawnSlab(s, p) ==
  [i \in 1..DiscHeaderLen |->
     IF i = p + 1 THEN W8 - 1 ELSE (29 * s + 5 + (i - 1) * (2 * s + 7)) % W8]

InitDiscHeader ==
  /\ \E s \in 0..MaxSlabSeed, p \in SlabEdges : gh_slab = DrawnSlab(s, p)
  /\ gh_header = None
  /\ gh_written = None
  /\ gh_reread = None
  /\ IdleInsn
  /\ IdleDolHeader
  /\ IdleFst
  /\ IdlePatch
  /\ IdleGap
  /\ IdleStream
  /\ IdleSubstream
  /\ IdleGui
  /\ IdleSplice

\* read_from_stream of the slab
ReadSlab ==
  /\ gh_header = None
  /\ gh_header' = Some(GCDiscHeader_read_from_stream(gh_slab, 0))
  /\ UNCHANGED <<gh_slab, gh_written, gh_reread>>
  /\ UNCHANGED <<varsInsn, varsDolHeader, varsFst, varsPatch, varsGap, varsStream, varsSubstream, varsGui, varsSplice>>

\* write_to_stream of the header read, into an empty vector
WriteSlab ==
  /\ gh_header # None
  /\ Get(gh_header).ok
  /\ gh_written = None
  /\ gh_written' = Some(GCDiscHeader_write_to_vec(Get(gh_header).val, <<>>))
  /\ UNCHANGED <<gh_slab, gh_header, gh_reread>>
  /\ UNCHANGED <<varsInsn, varsDolHeader, varsFst, varsPatch, varsGap, varsStream, varsSubstream, varsGui, varsSplice>>

\* read_from_stream of the bytes written
RereadSlab ==
  /\ gh_written # None
  /\ gh_reread = None
  /\ gh_reread' = Some(GCDiscHeader_read_from_stream(Get(gh_written), 0))
  /\ UNCHANGED <<gh_slab, gh_header, gh_written>>
  /\ UNCHANGED <<varsInsn, varsDolHeader, varsFst, varsPatch, varsGap, varsStream, varsSubstream, varsGui, varsSplice>>

NextDiscHeader == ReadSlab \/ WriteSlab \/ RereadSlab

SpecDiscHeader == InitDiscHeader /\ [][NextDiscHeader]_vars

(***************************************************************************)
(* Specification SpecFst: FST::read_from_stream and FST::write_to_stream   *)
(* applied to the trees of a bounded family and to the valid table regions *)
(* that hold them.                                                         *)
(***************************************************************************)
\* the largest number of entries (the root included) of a drawn tree
MaxFstNodes == 5

\* the k-th node put into a tree: names are one or two bytes long and
\* differ from node to node; a file's offset and length differ too
NodeName(k) == IF k % 2 = 0 THEN <<97 + k>> ELSE <<97 + k, 48 + k>>
NewFile(k) == File(NodeName(k), FromNat(4096 * k), FromNat(16 * k + 4))
NewDirectory(k) == Directory(NodeName(k), <<>>)
RootName == <<114>>

\* the paths (child positions from the root) of the directories of a tree
RECURSIVE DirPaths(_)
DirPaths(entry) ==
  IF ~entry.dir THEN {}
  ELSE {<<>>} \cup UNION { { <<i>> \o path : path \in DirPaths(entry.children[i]) } :
                           i \in 1..Len(entry.children) }

\* the tree with `child` appended to the children of the directory at path
RECURSIVE InsertAt(_, _, _)
InsertAt(entry, path, child) ==
  IF path = <<>> THEN [entry EXCEPT !.children = Append(@, child)]
  ELSE [entry EXCEPT !.children[Head(path)] = InsertAt(@, Tail(path), child)]

\* every tree of n entries: children of a directory come in any order of
\* files and directories, to any depth
RECURSIVE TreesOfSize(_)
TreesOfSize(n) ==
  IF n = 1 THEN { Directory(RootName, <<>>) }
  ELSE UNION { { InsertAt(tree, path, child) :
                   path \in DirPaths(tree), child \in {NewFile(n - 1), NewDirectory(n - 1)} } :
               tree \in TreesOfSize(n - 1) }
DrawnTrees == UNION { TreesOfSize(n) : n \in 1..MaxFstNodes }

\* A valid table region for a tree, as the disc format defines it: one row
\* per entry in pre-order, the children of a directory in the order the
\* tree holds them; a directory row carries its parent's index and the
\* index of the first entry after its whole subtree, the root row carries
\* parent 0 and the number of entries; the names follow the last row, each
\* terminated by a zero byte, in row order.
RECURSIVE Rows(_, _, _), RowsOfAll(_, _, _)
Rows(entry, index, parent) ==
  IF entry.dir
  THEN <<[dir |-> TRUE, name |-> entry.name,
          second |-> FromNat(parent), third |-> FromNat(index + count(entry))]>>
       \o RowsOfAll(entry.children, index + 1, index)
  ELSE <<[dir |-> FALSE, name |-> entry.name,
          second |-> entry.offset, third |-> entry.length]>>
RowsOfAll(children, index, parent) ==
  IF children = <<>> THEN <<>>
  ELSE Rows(Head(children), index, parent)
       \o RowsOfAll(Tail(children), index + count(Head(children)), parent)

RECURSIVE NameOffset(_, _)
NameOffset(rows, k) ==
  IF k = 1 THEN 0 ELSE NameOffset(rows, k - 1) + Len(rows[k - 1].name) + 1

ValidRegion(tree) ==
  LET rows == Rows(tree, 0, 0)
  IN  Flatten([k \in 1..Len(rows) |->
                 BE32(<<(IF rows[k].dir THEN W8 ELSE 0) + NameOffset(rows, k) \div W16,
                        NameOffset(rows, k) % W16>>)
                 \o BE32(rows[k].second) \o BE32(rows[k].third)])
      \o Flatten([k \in 1..Len(rows) |-> rows[k].name \o <<0>>])

InitFst ==
  /\ \E tree \in DrawnTrees :
       /\ fst_tree = Some(tree)
       /\ fst_region = ValidRegion(tree)
  /\ fst_parsed = None
  /\ fst_rewritten = None
  /\ fst_written = None
  /\ fst_reread = None
  /\ IdleInsn
  /\ IdleDolHeader
  /\ IdleDiscHeader
  /\ IdlePatch
  /\ IdleGap
  /\ IdleStream
  /\ IdleSubstream
  /\ IdleGui
  /\ IdleSplice

\* read_from_stream of the region
ParseRegion ==
  /\ fst_parsed = None
  /\ fst_parsed' = Some(FST_read_from_stream(fst_region, 0))
  /\ UNCHANGED <<fst_tree, fst_region, fst_rewritten, fst_written, fst_reread>>
  /\ UNCHANGED <<varsInsn, varsDolHeader, varsDiscHeader, varsPatch, varsGap, varsStream, varsSubstream, varsGui, varsSplice>>

\* write_to_stream of the tree parsed from the region
RewriteParsed ==
  /\ fst_parsed # None
  /\ Get(fst_parsed).ok
  /\ fst_rewritten = None
  /\ fst_rewritten' = Some(FST_write_to_stream(Get(fst_parsed).val.root))
  /\ UNCHANGED <<fst_tree, fst_region, fst_parsed, fst_written, fst_reread>>
  /\ UNCHANGED <<varsInsn, varsDolHeader, varsDiscHeader, varsPatch, varsGap, varsStream, varsSubstream, varsGui, varsSplice>>

\* write_to_stream of the tree
WriteTree ==
  /\ fst_written = None
  /\ fst_written' = Some(FST_write_to_stream(Get(fst_tree)))
  /\ UNCHANGED <<fst_tree, fst_region, fst_parsed, fst_rewritten, fst_reread>>
  /\ UNCHANGED <<varsInsn, varsDolHeader, varsDiscHeader, varsPatch, varsGap, varsStream, varsSubstream, varsGui, varsSplice>>

\* read_from_stream of the bytes written
RereadTree ==
  /\ fst_written # None
  /\ fst_reread = None
  /\ fst_reread' = Some(FST_read_from_stream(Get(fst_written), 0))
  /\ UNCHANGED <<fst_tree, fst_region, fst_parsed, fst_rewritten, fst_written>>
  /\ UNCHANGED <<varsInsn, varsDolHeader, varsDiscHeader, varsPatch, varsGap, varsStream, varsSubstream, varsGui, varsSplice>>

NextFst == ParseRegion \/ RewriteParsed \/ WriteTree \/ RereadTree

SpecFst == InitFst /\ [][NextFst]_vars

(***************************************************************************)
(* Specification Spec: one run of the patcher from the command line        *)
(* (run_cli_mode, handle_patch_for_file, then patch_dol_file or            *)
(* patch_iso_file with patch_dol inside), on inputs drawn from a bounded   *)
(* family of DOL files, disc images, mods and configurations.  Progress    *)
(* callbacks and log lines are left out.                                   *)
(***************************************************************************)
\* the largest number of segments with data in a drawn mod
MaxModSegments == 2

\* 0x8000_0000 + lo
Addr(lo) == <<W16 \div 2, lo>>
Descriptor(offset, loading, size) == [offset |-> offset, loading |-> loading, size |-> size]
VacantDescriptor == Descriptor(<<0, 0>>, <<0, 0>>, <<0, 0>>)
NumDescriptors == NumText + NumData

\* A drawn DOL: text[0] holds 32 bytes of code at file offset 0x100, loaded
\* at 0x80003100; every other descriptor (2..18 in chain order) is vacant
\* when in `vacant` and holds 4 bytes otherwise, the occupied ones laid out
\* one after the other behind the code.
OccupiedBefore(vacant, k) == Cardinality({ j \in 2..(k - 1) : j \notin vacant })
DrawnDescriptor(vacant, k) ==
  IF k = 1 THEN Descriptor(<<0, 256>>, Addr(12544), <<0, 32>>)
  ELSE IF k \in vacant THEN VacantDescriptor
  ELSE Descriptor(<<0, 288 + 4 * OccupiedBefore(vacant, k)>>, Addr(20480 + 16 * k), <<0, 4>>)
DrawnDolHeader(vacant) ==
  [text |-> [k \in 1..NumText |-> DrawnDescriptor(vacant, k)],
   data |-> [k \in 1..NumData |-> DrawnDescriptor(vacant, NumText + k)],
   bss_addr |-> Addr(24576), bss_size |-> <<0, 64>>, entry_point |-> Addr(12544)]
DrawnDol(vacant) ==
  LET header_bytes == DolHeader_bytes(DrawnDolHeader(vacant))
      len == 288 + 4 * OccupiedBefore(vacant, NumDescriptors + 1)
  IN  [i \in 1..len |-> IF i <= Len(header_bytes) THEN header_bytes[i]
                        ELSE IF i <= 256 THEN 0
                        ELSE 16 + (i % 128)]
VacancyPatterns ==
  { 2..NumDescriptors, (NumText + 1)..NumDescriptors, {3, 9, NumDescriptors},
    {NumDescriptors}, {} }
\* A DOL whose last descriptor is vacant (offset 0) but keeps a load
\* address and a size: the load range of text[0]
StaleDescriptor == Descriptor(<<0, 0>>, Addr(12544), <<0, 32>>)
DrawnDolStale ==
  LET h == [DrawnDolHeader(2..NumDescriptors) EXCEPT !.data[NumData] = StaleDescriptor]
  IN  write_slice(DrawnDol(2..NumDescriptors), 0, DolHeader_bytes(h))
DrawnDols ==
  { DrawnDol(vacant) : vacant \in VacancyPatterns }
  \cup { SubSeq(DrawnDol(2..NumDescriptors), 1, 100), DrawnDolStale }

\* A drawn mod: what object::File gives patch_dol of the ELF.  A segment
\* without data comes first, then n segments with data; the symbols name
\* places in the code of the drawn DOL and in the mod.
ModSegment(k) ==
  [address |-> Addr(16384 + 32 * k), size |-> <<0, 4 * k + 4>>,
   data |-> [i \in 1..(4 * k) |-> 128 + k]]
EmptySegment == [address |-> Addr(17408), size |-> <<0, 16>>, data |-> <<>>]
ModSymbols ==
  ("_LINK_END" :> Addr(49664)) @@ ("_PATCH_ARENA_LO_1" :> Addr(12544))
  @@ ("_PATCH_ARENA_LO_2" :> Addr(12552)) @@ ("hook" :> Addr(12560))
  @@ ("from" :> Addr(12564)) @@ ("to" :> Addr(16424))
DrawnElf(n) ==
  [valid |-> TRUE, entry |-> Addr(16416),
   segments |-> <<EmptySegment>> \o [k \in 1..n |-> ModSegment(k)],
   symbols |-> ModSymbols]
InvalidElf == [DrawnElf(0) EXCEPT !.valid = FALSE]
ElfWithoutLinkEnd ==
  [DrawnElf(1) EXCEPT !.symbols = [s \in DOMAIN ModSymbols \ {"_LINK_END"} |-> ModSymbols[s]]]
\* a mod whose branch source lies in no segment of the DOL
ElfWithStrayBranch == [DrawnElf(1) EXCEPT !.symbols["from"] = Addr(4096)]
DrawnElfs ==
  { DrawnElf(n) : n \in 0..MaxModSegments }
  \cup { InvalidElf, ElfWithoutLinkEnd, ElfWithStrayBranch }

\* the expected hash of a configuration: none, the digest of the input as
\* the patcher renders it, the same in capitals, or another string
UpperHex(hex) == [i \in 1..Len(hex) |-> IF hex[i] >= 97 THEN hex[i] - 32 ELSE hex[i]]
ExpectedHashes(bytes) ==
  { None, Some(HexLower(Md5(bytes))), Some(UpperHex(HexLower(Md5(bytes)))), Some(<<120>>) }

DrawnConfig(expected_iso_hash, expected_dol_hash, bnr_file) ==
  [game_name |-> <<77, 111, 100>>,
   expected_iso_hash |-> expected_iso_hash,
   expected_dol_hash |-> expected_dol_hash,
   bnr_file |-> bnr_file,
   entry_point_symbol |-> "hook",
   branch_patches |-> <<[branch_from_symbol |-> "from", to_symbol |-> "to", link |-> TRUE]>>]

\* the destination when it exists before the run, and the banner file
OldDestination == <<1, 2, 3>>
BannerBytes == <<201, 202, 203, 204, 205, 206, 207, 208>>

\* A drawn disc: the header at 0, the DOL with every descriptor but text[0]
\* vacant at 0x440, a valid table region for `tree` at 0x600, the banner
\* slot at 0x680, and bytes that differ from place to place elsewhere.
DrawnDiscHeader(tree) ==
  ("code" :> <<18253, 56389>>) @@ ("maker_code" :> 12337) @@ ("disk_id" :> 0)
  @@ ("version" :> 0) @@ ("audio_streaming" :> 0) @@ ("streaming_buffer_size" :> 0)
  @@ ("unused_1" :> Zeros(18)) @@ ("magic_word" :> <<49730, 13119>>)
  @@ ("game_name" :> [i \in 1..992 |-> IF i <= 8 THEN 64 + i ELSE 0])
  @@ ("debug_monitor" :> <<0, 0>>) @@ ("debug_monitor_load" :> <<0, 0>>)
  @@ ("unused_2" :> Zeros(24)) @@ ("dol_offset" :> <<0, DiscHeaderLen>>)
  @@ ("fst_offset" :> <<0, 1536>>) @@ ("fst_size" :> FromNat(Len(ValidRegion(tree))))
  @@ ("fst_max_size" :> FromNat(Len(ValidRegion(tree)))) @@ ("user_pos" :> <<0, 1664>>)
  @@ ("user_len" :> <<0, 8>>) @@ ("unused_3" :> <<0, 0>>) @@ ("unused_4" :> <<0, 0>>)
DrawnDisc(tree, len) ==
  LET header_bytes == GCDiscHeader_bytes(DrawnDiscHeader(tree))
      dol == DrawnDol(2..NumDescriptors)
      region == ValidRegion(tree)
  IN  [i \in 1..len |->
         IF i <= DiscHeaderLen THEN header_bytes[i]
         ELSE IF i <= DiscHeaderLen + Len(dol) THEN dol[i - DiscHeaderLen]
         ELSE IF i > 1536 /\ i <= 1536 + Len(region) THEN region[i - 1536]
         ELSE 1 + (i % 251)]
\* root > [Video > [Attract02_32.thp], a]
DiscTree(root_name, attract_offset, other_offset) ==
  Directory(root_name,
            << Directory(NameVideo, <<File(NameAttract, FromNat(attract_offset), <<0, 16>>)>>),
               File(<<97>>, FromNat(other_offset), <<0, 16>>) >>)
\* a disc whose lookup of the attract file succeeds and whose gap starts
\* below 8192; one whose gap starts above 8192; one without a gap; one
\* whose only gap starts below the length of the patched DOL; one with a
\* root-only table; one cut short inside the header
DiscSmall == DrawnDisc(DiscTree(NameRoot, 1792, 2176), 2192)
DiscLarge == DrawnDisc(DiscTree(RootName, 8704, 9216), 9232)
DiscNoGap == DrawnDisc(DiscTree(RootName, 1792, 1808), 1824)
DiscLowGap == DrawnDisc(DiscTree(RootName, 128, 1792), 1808)
DiscRootOnly == DrawnDisc(Directory(RootName, <<>>), 1700)
DiscShort == SubSeq(DiscSmall, 1, 16)
DrawnDiscs == { DiscSmall, DiscLarge, DiscNoGap, DiscLowGap, DiscRootOnly, DiscShort }

InitPatch ==
  /\ pc = "cli"
  /\ ext \in {"dol", "iso"}
  /\ args_ignore_hash \in BOOLEAN
  /\ fs_in \in IF ext = "dol" THEN DrawnDols ELSE DrawnDiscs
  /\ fs_out \in {None, Some(OldDestination)}
  /\ bnr_bytes = BannerBytes
  /\ \E overwrite_output \in BOOLEAN,
        elf \in IF ext = "dol" THEN DrawnElfs ELSE {DrawnElf(MaxModSegments)},
        expected \in ExpectedHashes(fs_in),
        bnr_file \in IF ext = "dol" THEN {None} ELSE {None, Some("banner.bnr")} :
       mod_data = [elf |-> elf,
                   config |-> IF ext = "dol" THEN DrawnConfig(None, expected, bnr_file)
                              ELSE DrawnConfig(expected, None, bnr_file),
                   overwrite_output |-> overwrite_output]
  /\ input_read = FALSE
  /\ dol_bytes = None
  /\ dol_header = None
  /\ mod_file = None
  /\ output_bytes = None
  /\ segment_index = 0
  /\ header = None
  /\ fst = None
  /\ patched_dol_bytes = None
  /\ chosen_gap = None
  /\ mod_dol_offset = None
  /\ fst_bytes = None
  /\ result = None

Init ==
  /\ InitPatch
  /\ IdleInsn
  /\ IdleDolHeader
  /\ IdleDiscHeader
  /\ IdleFst
  /\ IdleGap
  /\ IdleStream
  /\ IdleSubstream
  /\ IdleGui
  /\ IdleSplice

\* run_cli_mode: --ignore-hash clears both expected hashes
RunCliMode ==
  /\ pc = "cli"
  /\ mod_data' = IF args_ignore_hash
       THEN [mod_data EXCEPT !.config.expected_iso_hash = None,
                              !.config.expected_dol_hash = None]
       ELSE mod_data
  /\ pc' = "handle"
  /\ UNCHANGED <<ext, args_ignore_hash, bnr_bytes, fs_in, fs_out, input_read,
                 dol_bytes, dol_header, mod_file, output_bytes,
                 segment_index, header, fst, patched_dol_bytes, chosen_gap,
                 mod_dol_offset, fst_bytes, result>>
  /\ UNCHANGED <<varsInsn, varsDolHeader, varsDiscHeader, varsFst, varsGap, varsStream, varsSubstream, varsGui, varsSplice>>

\* handle_patch_for_file: the extension of the input path selects the patcher
HandlePatchForFile ==
  /\ pc = "handle"
  /\ pc' = IF ext = "dol" THEN "dol_check" ELSE "iso_check"
  /\ UNCHANGED <<ext, args_ignore_hash, mod_data, bnr_bytes, fs_in, fs_out,
                 input_read, dol_bytes, dol_header, mod_file, output_bytes,
                 segment_index, header, fst, patched_dol_bytes, chosen_gap,
                 mod_dol_offset, fst_bytes, result>>
  /\ UNCHANGED <<varsInsn, varsDolHeader, varsDiscHeader, varsFst, varsGap, varsStream, varsSubstream, varsGui, varsSplice>>

\* the destination check of a patch_dol_file that opens (and so empties)
\* the destination before it patches
DolFileCheck_truncating ==
  /\ pc = "dol_check"
  /\ LET refuse == ~mod_data.overwrite_output /\ fs_out # None
     IN  /\ result' = IF refuse THEN Some(Err([kind |-> "OutputExists"])) ELSE result
         /\ pc' = IF refuse THEN "done" ELSE "dol_read"
         /\ fs_out' = IF refuse THEN fs_out ELSE Some(<<>>)
  /\ UNCHANGED <<ext, args_ignore_hash, mod_data, bnr_bytes, fs_in,
                 input_read, dol_bytes, dol_header, mod_file, output_bytes,
                 segment_index, header, fst, patched_dol_bytes, chosen_gap,
                 mod_dol_offset, fst_bytes>>
  /\ UNCHANGED <<varsInsn, varsDolHeader, varsDiscHeader, varsFst, varsGap, varsStream, varsSubstream, varsGui, varsSplice>>

\* patch_dol_file: the destination check
DolFileCheck ==
  /\ pc = "dol_check"
  /\ LET refuse == ~mod_data.overwrite_output /\ fs_out # None
     IN  /\ result' = IF refuse THEN Some(Err([kind |-> "OutputExists"])) ELSE result
         /\ pc' = IF refuse THEN "done" ELSE "dol_read"
  /\ UNCHANGED <<ext, args_ignore_hash, mod_data, bnr_bytes, fs_in, fs_out,
                 input_read, dol_bytes, dol_header, mod_file, output_bytes,
                 segment_index, header, fst, patched_dol_bytes, chosen_gap,
                 mod_dol_offset, fst_bytes>>
  /\ UNCHANGED <<varsInsn, varsDolHeader, varsDiscHeader, varsFst, varsGap, varsStream, varsSubstream, varsGui, varsSplice>>

\* patch_dol_file: fs::read of the input
DolFileRead ==
  /\ pc = "dol_read"
  /\ dol_bytes' = Some(fs_in)
  /\ input_read' = TRUE
  /\ pc' = "pd_hash"
  /\ UNCHANGED <<ext, args_ignore_hash, mod_data, bnr_bytes, fs_in, fs_out,
                 dol_header, mod_file, output_bytes, segment_index, header,
                 fst, patched_dol_bytes, chosen_gap, mod_dol_offset,
                 fst_bytes, result>>
  /\ UNCHANGED <<varsInsn, varsDolHeader, varsDiscHeader, varsFst, varsGap, varsStream, varsSubstream, varsGui, varsSplice>>

\* patch_dol: the hash check
PatchDolHash ==
  /\ pc = "pd_hash"
  /\ LET expected_dol_hash == mod_data.config.expected_dol_hash
         result_hash == HexLower(Md5(Get(dol_bytes)))
         mismatch == expected_dol_hash # None /\ hash_differs(result_hash, Get(expected_dol_hash))
     IN  /\ result' = IF mismatch
              THEN Some(Err([kind |-> "DolHashMismatch",
                             expected |-> Get(expected_dol_hash), got |-> result_hash]))
              ELSE result
         /\ pc' = IF mismatch THEN "done" ELSE "pd_header"
  /\ UNCHANGED <<ext, args_ignore_hash, mod_data, bnr_bytes, fs_in, fs_out,
                 input_read, dol_bytes, dol_header, mod_file, output_bytes,
                 segment_index, header, fst, patched_dol_bytes, chosen_gap,
                 mod_dol_offset, fst_bytes>>
  /\ UNCHANGED <<varsInsn, varsDolHeader, varsDiscHeader, varsFst, varsGap, varsStream, varsSubstream, varsGui, varsSplice>>

\* patch_dol: DolHeader::read_from_stream of the input bytes
PatchDolReadHeader ==
  /\ pc = "pd_header"
  /\ LET r == DolHeader_read_from_stream(Get(dol_bytes))
     IN  /\ dol_header' = IF r.ok THEN Some(r.val) ELSE dol_header
         /\ result' = IF r.ok THEN result ELSE Some(Err([kind |-> "Io", error |-> r.err]))
         /\ pc' = IF r.ok THEN "pd_elf" ELSE "done"
  /\ UNCHANGED <<ext, args_ignore_hash, mod_data, bnr_bytes, fs_in, fs_out,
                 input_read, dol_bytes, mod_file, output_bytes,
                 segment_index, header, fst, patched_dol_bytes, chosen_gap,
                 mod_dol_offset, fst_bytes>>
  /\ UNCHANGED <<varsInsn, varsDolHeader, varsDiscHeader, varsFst, varsGap, varsStream, varsSubstream, varsGui, varsSplice>>

\* patch_dol: parse_elf, the symbol lookups in their order, and the copy of
\* the input bytes the output starts from
PatchDolParseElf ==
  /\ pc = "pd_elf"
  /\ LET elf == mod_data.elf
         names == <<"_LINK_END", "_PATCH_ARENA_LO_1", "_PATCH_ARENA_LO_2",
                    mod_data.config.entry_point_symbol>>
         missing == { i \in 1..Len(names) : ~get_symbol(elf, names[i]).ok }
         first_missing == CHOOSE i \in missing : \A j \in missing : i <= j
         ok == elf.valid /\ missing = {}
     IN  /\ mod_file' = IF ok THEN Some(elf) ELSE mod_file
         /\ output_bytes' = IF ok THEN dol_bytes ELSE output_bytes
         /\ segment_index' = IF ok THEN 1 ELSE segment_index
         /\ result' = IF ok THEN result
              ELSE IF ~elf.valid THEN Some(Err([kind |-> "ElfParse"]))
              ELSE Some(get_symbol(elf, names[first_missing]))
         /\ pc' = IF ok THEN "pd_segments" ELSE "done"
  /\ UNCHANGED <<ext, args_ignore_hash, mod_data, bnr_bytes, fs_in, fs_out,
                 input_read, dol_bytes, dol_header, header, fst,
                 patched_dol_bytes, chosen_gap, mod_dol_offset, fst_bytes>>
  /\ UNCHANGED <<varsInsn, varsDolHeader, varsDiscHeader, varsFst, varsGap, varsStream, varsSubstream, varsGui, varsSplice>>

\* patch_dol: one iteration of the loop over the segments of the mod
PatchDolSegment ==
  /\ pc = "pd_segments"
  /\ segment_index <= Len(Get(mod_file).segments)
  /\ LET segment == Get(mod_file).segments[segment_index]
         empty == segment.data = <<>>
         r == append_segment(Get(dol_header), Get(output_bytes), segment)
     IN  /\ dol_header' = IF ~empty /\ r.ok THEN Some(r.val.dol_header) ELSE dol_header
         /\ output_bytes' = IF empty THEN output_bytes
              ELSE IF r.ok THEN Some(r.val.output_bytes)
              ELSE Some(Get(output_bytes) \o segment.data)
         /\ segment_index' = IF empty \/ r.ok THEN segment_index + 1 ELSE segment_index
         /\ result' = IF empty \/ r.ok THEN result ELSE Some(r)
         /\ pc' = IF empty \/ r.ok THEN "pd_segments" ELSE "done"
  /\ UNCHANGED <<ext, args_ignore_hash, mod_data, bnr_bytes, fs_in, fs_out,
                 input_read, dol_bytes, mod_file, header, fst,
                 patched_dol_bytes, chosen_gap, mod_dol_offset, fst_bytes>>
  /\ UNCHANGED <<varsInsn, varsDolHeader, varsDiscHeader, varsFst, varsGap, varsStream, varsSubstream, varsGui, varsSplice>>

\* patch_dol: after the loop, the header is written over the start of the
\* output and read back
PatchDolWriteHeader ==
  /\ pc = "pd_segments"
  /\ segment_index > Len(Get(mod_file).segments)
  /\ LET written == DolHeader_write_to_slice(Get(dol_header), Get(output_bytes))
         new_dol_header == DolHeader_read_from_stream(written)
     IN  /\ output_bytes' = Some(written)
         /\ result' = IF new_dol_header.ok THEN result
              ELSE Some(Err([kind |-> "Io", error |-> new_dol_header.err]))
         /\ pc' = IF new_dol_header.ok THEN "pd_arena" ELSE "done"
  /\ UNCHANGED <<ext, args_ignore_hash, mod_data, bnr_bytes, fs_in, fs_out,
                 input_read, dol_bytes, dol_header, mod_file, segment_index,
                 header, fst, patched_dol_bytes, chosen_gap, mod_dol_offset,
                 fst_bytes>>
  /\ UNCHANGED <<varsInsn, varsDolHeader, varsDiscHeader, varsFst, varsGap, varsStream, varsSubstream, varsGui, varsSplice>>

\* patch_dol: the four arena patches
PatchDolArena ==
  /\ pc = "pd_arena"
  /\ LET r == arena_patches(Get(dol_header), Get(output_bytes),
                            get_symbol(Get(mod_file), "_LINK_END").val,
                            get_symbol(Get(mod_file), "_PATCH_ARENA_LO_1").val,
                            get_symbol(Get(mod_file), "_PATCH_ARENA_LO_2").val)
     IN  /\ output_bytes' = IF r.ok THEN Some(r.val) ELSE output_bytes
         /\ result' = IF r.ok THEN result ELSE Some(r)
         /\ pc' = IF r.ok THEN "pd_hook" ELSE "done"
  /\ UNCHANGED <<ext, args_ignore_hash, mod_data, bnr_bytes, fs_in, fs_out,
                 input_read, dol_bytes, dol_header, mod_file, segment_index,
                 header, fst, patched_dol_bytes, chosen_gap, mod_dol_offset,
                 fst_bytes>>
  /\ UNCHANGED <<varsInsn, varsDolHeader, varsDiscHeader, varsFst, varsGap, varsStream, varsSubstream, varsGui, varsSplice>>

\* patch_dol: the branch from the entry hook to the entry of the mod
PatchDolEntryHook ==
  /\ pc = "pd_hook"
  /\ LET entry_hook_addr == get_symbol(Get(mod_file), mod_data.config.entry_point_symbol).val
         entry_addr == Get(mod_file).entry
         r == patch_dol_addr_32(Get(dol_header), Get(output_bytes), entry_hook_addr,
                                build_b_rel24(entry_hook_addr, entry_addr, FALSE))
     IN  /\ output_bytes' = IF r.ok THEN Some(r.val) ELSE output_bytes
         /\ result' = IF r.ok THEN result ELSE Some(r)
         /\ pc' = IF r.ok THEN "pd_branches" ELSE "done"
  /\ UNCHANGED <<ext, args_ignore_hash, mod_data, bnr_bytes, fs_in, fs_out,
                 input_read, dol_bytes, dol_header, mod_file, segment_index,
                 header, fst, patched_dol_bytes, chosen_gap, mod_dol_offset,
                 fst_bytes>>
  /\ UNCHANGED <<varsInsn, varsDolHeader, varsDiscHeader, varsFst, varsGap, varsStream, varsSubstream, varsGui, varsSplice>>

\* patch_dol: the configured branch patches, and the return of the output
\* bytes to patch_dol_file or patch_iso_file
PatchDolBranches ==
  /\ pc = "pd_branches"
  /\ LET r == branch_patches(Get(dol_header), Get(output_bytes), Get(mod_file),
                             mod_data.config.branch_patches, 1)
     IN  /\ output_bytes' = IF r.ok THEN Some(r.val) ELSE output_bytes
         /\ patched_dol_bytes' = IF r.ok /\ ext # "dol" THEN Some(r.val) ELSE patched_dol_bytes
         /\ result' = IF r.ok THEN result ELSE Some(r)
         /\ pc' = IF ~r.ok THEN "done" ELSE IF ext = "dol" THEN "dol_write" ELSE "iso_gap"
  /\ UNCHANGED <<ext, args_ignore_hash, mod_data, bnr_bytes, fs_in, fs_out,
                 input_read, dol_bytes, dol_header, mod_file, segment_index,
                 header, fst, chosen_gap, mod_dol_offset, fst_bytes>>
  /\ UNCHANGED <<varsInsn, varsDolHeader, varsDiscHeader, varsFst, varsGap, varsStream, varsSubstream, varsGui, varsSplice>>

\* patch_dol_file: fs::write of the output bytes to the destination
DolFileWrite ==
  /\ pc = "dol_write"
  /\ fs_out' = output_bytes
  /\ result' = Some(Ok("Dol"))
  /\ pc' = "done"
  /\ UNCHANGED <<ext, args_ignore_hash, mod_data, bnr_bytes, fs_in,
                 input_read, dol_bytes, dol_header, mod_file, output_bytes,
                 segment_index, header, fst, patched_dol_bytes, chosen_gap,
                 mod_dol_offset, fst_bytes>>
  /\ UNCHANGED <<varsInsn, varsDolHeader, varsDiscHeader, varsFst, varsGap, varsStream, varsSubstream, varsGui, varsSplice>>

\* patch_iso_file: the destination check
IsoCheck ==
  /\ pc = "iso_check"
  /\ LET refuse == fs_out # None
     IN  /\ result' = IF refuse THEN Some(Err([kind |-> "OutputExists"])) ELSE result
         /\ pc' = IF refuse THEN "done" ELSE "iso_hash"
  /\ UNCHANGED <<ext, args_ignore_hash, mod_data, bnr_bytes, fs_in, fs_out,
                 input_read, dol_bytes, dol_header, mod_file, output_bytes,
                 segment_index, header, fst, patched_dol_bytes, chosen_gap,
                 mod_dol_offset, fst_bytes>>
  /\ UNCHANGED <<varsInsn, varsDolHeader, varsDiscHeader, varsFst, varsGap, varsStream, varsSubstream, varsGui, varsSplice>>

\* patch_iso_file: the input is mapped and its hash checked
IsoHash ==
  /\ pc = "iso_hash"
  /\ LET expected_iso_hash == mod_data.config.expected_iso_hash
         result_hash == HexLower(Md5(fs_in))
         mismatch == expected_iso_hash # None /\ result_hash # Get(expected_iso_hash)
     IN  /\ input_read' = TRUE
         /\ result' = IF mismatch
              THEN Some(Err([kind |-> "IsoHashMismatch",
                             expected |-> Get(expected_iso_hash), got |-> result_hash]))
              ELSE result
         /\ pc' = IF mismatch THEN "done" ELSE "iso_header"
  /\ UNCHANGED <<ext, args_ignore_hash, mod_data, bnr_bytes, fs_in, fs_out,
                 dol_bytes, dol_header, mod_file, output_bytes,
                 segment_index, header, fst, patched_dol_bytes, chosen_gap,
                 mod_dol_offset, fst_bytes>>
  /\ UNCHANGED <<varsInsn, varsDolHeader, varsDiscHeader, varsFst, varsGap, varsStream, varsSubstream, varsGui, varsSplice>>

\* patch_iso_file: GCDiscHeader::read_from_stream at the start of the input
IsoReadHeader ==
  /\ pc = "iso_header"
  /\ LET r == GCDiscHeader_read_from_stream(fs_in, 0)
     IN  /\ header' = IF r.ok THEN Some(r.val) ELSE header
         /\ result' = IF r.ok THEN result ELSE Some(Err([kind |-> "Io", error |-> r.err]))
         /\ pc' = IF r.ok THEN "iso_fst" ELSE "done"
  /\ UNCHANGED <<ext, args_ignore_hash, mod_data, bnr_bytes, fs_in, fs_out,
                 input_read, dol_bytes, dol_header, mod_file, output_bytes,
                 segment_index, fst, patched_dol_bytes, chosen_gap,
                 mod_dol_offset, fst_bytes>>
  /\ UNCHANGED <<varsInsn, varsDolHeader, varsDiscHeader, varsFst, varsGap, varsStream, varsSubstream, varsGui, varsSplice>>

\* patch_iso_file: FST::read_from_stream at header.fst_offset
IsoReadFst ==
  /\ pc = "iso_fst"
  /\ LET fst_offset == Get(header).fst_offset
         r == IF FitsNat(fst_offset) THEN FST_read_from_stream(fs_in, ToNat(fst_offset))
              ELSE Err("UnexpectedEof")
     IN  /\ fst' = IF r.ok THEN Some(r.val.root) ELSE fst
         /\ result' = IF r.ok THEN result ELSE Some(Err([kind |-> "Io", error |-> r.err]))
         /\ pc' = IF r.ok THEN "iso_attract" ELSE "done"
  /\ UNCHANGED <<ext, args_ignore_hash, mod_data, bnr_bytes, fs_in, fs_out,
                 input_read, dol_bytes, dol_header, mod_file, output_bytes,
                 segment_index, header, patched_dol_bytes, chosen_gap,
                 mod_dol_offset, fst_bytes>>
  /\ UNCHANGED <<varsInsn, varsDolHeader, varsDiscHeader, varsFst, varsGap, varsStream, varsSubstream, varsGui, varsSplice>>

\* patch_iso_file: the length of Video/Attract02_32.thp is set to 0 when
\* the lookup finds it
IsoRemoveAttract ==
  /\ pc = "iso_attract"
  /\ LET place == find_mut(Get(fst), <<NameRoot, NameVideo, NameAttract>>)
     IN  /\ fst' = IF place # None THEN Some(set_length(Get(fst), Get(place), <<0, 0>>)) ELSE fst
         /\ pc' = "iso_dol"
  /\ UNCHANGED <<ext, args_ignore_hash, mod_data, bnr_bytes, fs_in, fs_out,
                 input_read, dol_bytes, dol_header, mod_file, output_bytes,
                 segment_index, header, patched_dol_bytes, chosen_gap,
                 mod_dol_offset, fst_bytes, result>>
  /\ UNCHANGED <<varsInsn, varsDolHeader, varsDiscHeader, varsFst, varsGap, varsStream, varsSubstream, varsGui, varsSplice>>

\* patch_iso_file: the DOL header is read from 0x100 bytes at
\* header.dol_offset and the DOL is sliced out of the input
IsoExtractDol ==
  /\ pc = "iso_dol"
  /\ LET dol_offset == Get(header).dol_offset
         header_ok == in_range(fs_in, dol_offset, DolHeaderSlice)
         dol_header_bytes == SubSeq(fs_in, ToNat(dol_offset) + 1, ToNat(dol_offset) + DolHeaderSlice)
         r == DolHeader_read_from_stream(dol_header_bytes)
         dol_length == total_length(r.val)
         ok == header_ok /\ r.ok /\ in_range(fs_in, dol_offset, dol_length)
     IN  /\ dol_bytes' = IF ok THEN Some(SubSeq(fs_in, ToNat(dol_offset) + 1, ToNat(dol_offset) + dol_length))
              ELSE dol_bytes
         /\ result' = IF ok THEN result
              ELSE IF header_ok /\ ~r.ok THEN Some(Err([kind |-> "Io", error |-> r.err]))
              ELSE Some(Err([kind |-> "Panic"]))
         /\ pc' = IF ok THEN "pd_hash" ELSE "done"
  /\ UNCHANGED <<ext, args_ignore_hash, mod_data, bnr_bytes, fs_in, fs_out,
                 input_read, dol_header, mod_file, output_bytes,
                 segment_index, header, fst, patched_dol_bytes, chosen_gap,
                 mod_dol_offset, fst_bytes>>
  /\ UNCHANGED <<varsInsn, varsDolHeader, varsDiscHeader, varsFst, varsGap, varsStream, varsSubstream, varsGui, varsSplice>>

\* patch_iso_file: the gaps between the file ranges, and the first gap the
\* patched DOL fits in
IsoFindGap ==
  /\ pc = "iso_gap"
  /\ LET file_ranges == get_ranges(Get(fst))
         gaps == convert_ranges_to_gaps(file_ranges)
         chosen == IF gaps.ok THEN choose_gap(gaps.val, FromNat(Len(Get(patched_dol_bytes))))
                   ELSE None
     IN  /\ chosen_gap' = chosen
         /\ result' = IF ~gaps.ok THEN Some(gaps)
              ELSE IF chosen = None THEN Some(Err([kind |-> "NoSuitableGap"]))
              ELSE result
         /\ pc' = IF chosen = None THEN "done" ELSE "iso_place"
  /\ UNCHANGED <<ext, args_ignore_hash, mod_data, bnr_bytes, fs_in, fs_out,
                 input_read, dol_bytes, dol_header, mod_file, output_bytes,
                 segment_index, header, fst, patched_dol_bytes,
                 mod_dol_offset, fst_bytes>>
  /\ UNCHANGED <<varsInsn, varsDolHeader, varsDiscHeader, varsFst, varsGap, varsStream, varsSubstream, varsGui, varsSplice>>

\* patch_iso_file: the offset of the mod DOL and its entry in the FST.  The
\* subtraction chosen_gap.0 - len is a panic in a build with overflow
\* checks when len is the larger, and wraps in a build without them.
IsoPlaceDol ==
  /\ pc = "iso_place"
  /\ \E overflow_checks \in BOOLEAN :
       /\ LET len == FromNat(Len(Get(patched_dol_bytes)))
              overflow == Lt32(Get(chosen_gap)[1], len)
              offset == place_dol(Get(chosen_gap), len)
              added == add_child(Get(fst), File(NameDefaultMod, offset, len))
              ok == ~(overflow /\ overflow_checks) /\ added.ok
          IN  /\ mod_dol_offset' = IF ok THEN Some(offset) ELSE mod_dol_offset
              /\ fst' = IF ok THEN Some(added.val) ELSE fst
              /\ result' = IF ok THEN result
                   ELSE IF overflow /\ overflow_checks THEN Some(Err([kind |-> "Panic"]))
                   ELSE Some(added)
              /\ pc' = IF ok THEN "iso_create" ELSE "done"
  /\ UNCHANGED <<ext, args_ignore_hash, mod_data, bnr_bytes, fs_in, fs_out,
                 input_read, dol_bytes, dol_header, mod_file, output_bytes,
                 segment_index, header, patched_dol_bytes, chosen_gap,
                 fst_bytes>>
  /\ UNCHANGED <<varsInsn, varsDolHeader, varsDiscHeader, varsFst, varsGap, varsStream, varsSubstream, varsGui, varsSplice>>

\* patch_iso_file: the destination is opened (created when missing), set
\* to the length of the input and mapped
IsoCreateOutput ==
  /\ pc = "iso_create"
  /\ fs_out' = Some(set_len(fs_out, Len(fs_in)))
  /\ pc' = "iso_copy"
  /\ UNCHANGED <<ext, args_ignore_hash, mod_data, bnr_bytes, fs_in,
                 input_read, dol_bytes, dol_header, mod_file, output_bytes,
                 segment_index, header, fst, patched_dol_bytes, chosen_gap,
                 mod_dol_offset, fst_bytes, result>>
  /\ UNCHANGED <<varsInsn, varsDolHeader, varsDiscHeader, varsFst, varsGap, varsStream, varsSubstream, varsGui, varsSplice>>

\* patch_iso_file: the input is copied into the destination
IsoCopy ==
  /\ pc = "iso_copy"
  /\ fs_out' = Some(copy_chunks(fs_in, Get(fs_out)))
  /\ pc' = "iso_write_fst"
  /\ UNCHANGED <<ext, args_ignore_hash, mod_data, bnr_bytes, fs_in,
                 input_read, dol_bytes, dol_header, mod_file, output_bytes,
                 segment_index, header, fst, patched_dol_bytes, chosen_gap,
                 mod_dol_offset, fst_bytes, result>>
  /\ UNCHANGED <<varsInsn, varsDolHeader, varsDiscHeader, varsFst, varsGap, varsStream, varsSubstream, varsGui, varsSplice>>

\* patch_iso_file: the FST is serialized and copied over the destination at
\* header.fst_offset
IsoWriteFst ==
  /\ pc = "iso_write_fst"
  /\ LET fst_bytes_vec == FST_write_to_stream(Get(fst))
         fst_offset == Get(header).fst_offset
         ok == in_range(Get(fs_out), fst_offset, Len(fst_bytes_vec))
     IN  /\ fst_bytes' = Some(fst_bytes_vec)
         /\ fs_out' = IF ok THEN Some(write_slice(Get(fs_out), ToNat(fst_offset), fst_bytes_vec)) ELSE fs_out
         /\ result' = IF ok THEN result ELSE Some(Err([kind |-> "Panic"]))
         /\ pc' = IF ok THEN "iso_write_header" ELSE "done"
  /\ UNCHANGED <<ext, args_ignore_hash, mod_data, bnr_bytes, fs_in,
                 input_read, dol_bytes, dol_header, mod_file, output_bytes,
                 segment_index, header, fst, patched_dol_bytes, chosen_gap,
                 mod_dol_offset>>
  /\ UNCHANGED <<varsInsn, varsDolHeader, varsDiscHeader, varsFst, varsGap, varsStream, varsSubstream, varsGui, varsSplice>>

\* patch_iso_file: the header is patched and written at the start of the
\* destination
IsoWriteHeader ==
  /\ pc = "iso_write_header"
  /\ LET fst_size == FromNat(Len(Get(fst_bytes)))
         patched == [Get(header) EXCEPT
                       !["game_name"] = write_slice(@, 0, mod_data.config.game_name),
                       !["dol_offset"] = Get(mod_dol_offset),
                       !["fst_size"] = fst_size,
                       !["fst_max_size"] = fst_size]
     IN  /\ header' = Some(patched)
         /\ fs_out' = Some(GCDiscHeader_write_to_slice(patched, Get(fs_out)))
         /\ pc' = "iso_write_dol"
  /\ UNCHANGED <<ext, args_ignore_hash, mod_data, bnr_bytes, fs_in,
                 input_read, dol_bytes, dol_header, mod_file, output_bytes,
                 segment_index, fst, patched_dol_bytes, chosen_gap,
                 mod_dol_offset, fst_bytes, result>>
  /\ UNCHANGED <<varsInsn, varsDolHeader, varsDiscHeader, varsFst, varsGap, varsStream, varsSubstream, varsGui, varsSplice>>

\* patch_iso_file: the patched DOL is copied over the destination at
\* mod_dol_offset
IsoWriteDol ==
  /\ pc = "iso_write_dol"
  /\ LET ok == in_range(Get(fs_out), Get(mod_dol_offset), Len(Get(patched_dol_bytes)))
     IN  /\ fs_out' = IF ok
              THEN Some(write_slice(Get(fs_out), ToNat(Get(mod_dol_offset)), Get(patched_dol_bytes)))
              ELSE fs_out
         /\ result' = IF ok THEN result ELSE Some(Err([kind |-> "Panic"]))
         /\ pc' = IF ok THEN "iso_banner" ELSE "done"
  /\ UNCHANGED <<ext, args_ignore_hash, mod_data, bnr_bytes, fs_in,
                 input_read, dol_bytes, dol_header, mod_file, output_bytes,
                 segment_index, header, fst, patched_dol_bytes, chosen_gap,
                 mod_dol_offset, fst_bytes>>
  /\ UNCHANGED <<varsInsn, varsDolHeader, varsDiscHeader, varsFst, varsGap, varsStream, varsSubstream, varsGui, varsSplice>>

\* patch_iso_file: the banner, when one is configured, is copied over the
\* destination at header.user_pos
IsoWriteBanner ==
  /\ pc = "iso_banner"
  /\ LET configured == mod_data.config.bnr_file # None
         bnr_offset == Get(header).user_pos
         ok == ~configured \/ in_range(Get(fs_out), bnr_offset, Len(bnr_bytes))
     IN  /\ fs_out' = IF configured /\ ok
              THEN Some(write_slice(Get(fs_out), ToNat(bnr_offset), bnr_bytes))
              ELSE fs_out
         /\ result' = IF ok THEN result ELSE Some(Err([kind |-> "Panic"]))
         /\ pc' = IF ok THEN "iso_flush" ELSE "done"
  /\ UNCHANGED <<ext, args_ignore_hash, mod_data, bnr_bytes, fs_in,
                 input_read, dol_bytes, dol_header, mod_file, output_bytes,
                 segment_index, header, fst, patched_dol_bytes, chosen_gap,
                 mod_dol_offset, fst_bytes>>
  /\ UNCHANGED <<varsInsn, varsDolHeader, varsDiscHeader, varsFst, varsGap, varsStream, varsSubstream, varsGui, varsSplice>>

\* patch_iso_file: the map is flushed and the patch is done
IsoFinish ==
  /\ pc = "iso_flush"
  /\ result' = Some(Ok("Iso"))
  /\ pc' = "done"
  /\ UNCHANGED <<ext, args_ignore_hash, mod_data, bnr_bytes, fs_in, fs_out,
                 input_read, dol_bytes, dol_header, mod_file, output_bytes,
                 segment_index, header, fst, patched_dol_bytes, chosen_gap,
                 mod_dol_offset, fst_bytes>>
  /\ UNCHANGED <<varsInsn, varsDolHeader, varsDiscHeader, varsFst, varsGap, varsStream, varsSubstream, varsGui, varsSplice>>

Next ==
  \/ RunCliMode
  \/ HandlePatchForFile
  \/ DolFileCheck
  \/ DolFileRead
  \/ PatchDolHash
  \/ PatchDolReadHeader
  \/ PatchDolParseElf
  \/ PatchDolSegment
  \/ PatchDolWriteHeader
  \/ PatchDolArena
  \/ PatchDolEntryHook
  \/ PatchDolBranches
  \/ DolFileWrite
  \/ IsoCheck
  \/ IsoHash
  \/ IsoReadHeader
  \/ IsoReadFst
  \/ IsoRemoveAttract
  \/ IsoExtractDol
  \/ IsoFindGap
  \/ IsoPlaceDol
  \/ IsoCreateOutput
  \/ IsoCopy
  \/ IsoWriteFst
  \/ IsoWriteHeader
  \/ IsoWriteDol
  \/ IsoWriteBanner
  \/ IsoFinish

Spec == Init /\ [][Next]_vars

(***************************************************************************)
(* Claims about the instruction encoders (SpecInsn).                       *)
(***************************************************************************)
\* |target - addr| < 2^25, forwards or backwards
InBranchRange(addr, target) ==
  \/ Lt32(Sub32(target, addr), Two25)
  \/ Lt32(Sub32(addr, target), Two25)

\* 0x48000000 | link | ((target - pc) & 0x03FFFFFC), the encoding the
\* specification gives for `b` and `bl`
SpecBranchWord(addr, target, link) ==
  Or32(IF link THEN OpBl ELSE OpB, And32(Sub32(target, addr), LiMask))

\* C3: for pc and target multiples of 4 with |target - pc| < 2^25, the word
\* built by build_b_rel24 has the branch opcode in its top 6 bits, the link
\* flag in bit 0, and an LI field that, sign-extended and added to pc, gives
\* back target; it is the word 0x48000000 | link | ((target - pc) & 0x03FFFFFC).
C3_BranchRoundTrip ==
  (IsSome(branch_word) /\ InBranchRange(hook_addr, target_addr)) =>
    LET word == Get(branch_word)
    IN  /\ Opcode(word) = Opcode(OpB)
        /\ LkBit(word) = (IF link_flag THEN 1 ELSE 0)
        /\ BranchTarget(word, hook_addr) = target_addr
        /\ word = SpecBranchWord(hook_addr, target_addr, link_flag)

\* C4: the pair (upper, lower) computed from _LINK_END, and the immediates
\* of the lis and addi words built from it, satisfy
\* (upper << 16) + sign_extend16(lower) == arena modulo 2^32, with
\* lower = arena & 0xFFFF and upper = (arena >> 16) & 0xFFFF, plus one when
\* lower has bit 15 set.
C4_ArenaSplitIdentity ==
  IsSome(arena_words) =>
    LET a == Get(arena_words)
    IN  /\ a.lower = Lo(link_end)
        /\ a.upper = (Hi(link_end) + (IF Lo(link_end) >= W16 \div 2 THEN 1 ELSE 0)) % W16
        /\ Add32(<<a.upper, 0>>, SignExtend16(a.lower)) = link_end
        /\ LisAddiValue(a.lis, a.addi) = link_end
        /\ (link_end = <<32837, 4660>> => a.upper = 32837 /\ a.lower = 4660)
        /\ (link_end = <<32836, 65535>> => a.upper = 32837 /\ a.lower = 65535)

\* the split of 0x8044FFFF has been computed: the compensated case
C4_Witness ==
  /\ IsSome(arena_words)
  /\ link_end = <<32836, 65535>>
  /\ Get(arena_words).upper = 32837
  /\ Get(arena_words).lis = <<15456 + 0, 32837>>

(***************************************************************************)
(* Claims about the DOL header codec (SpecDolHeader).                      *)
(***************************************************************************)
\* the big-endian u32 at byte offset off of a buffer
BEWordAtByte(buf, off) ==
  <<buf[off + 1] * W8 + buf[off + 2], buf[off + 3] * W8 + buf[off + 4]>>

\* C7: read_from_stream(write_to_stream(H)) == H for every header H; writing
\* the header read from a byte image reproduces the image's bytes; and the
\* fields lie as 7 text offsets, 11 data offsets, 7 text loads, 11 data
\* loads, 7 text sizes, 11 data sizes, BSS address, BSS size, entry point,
\* each big-endian.
C7_DolHeaderRoundTrip ==
  /\ IsSome(dh_reread) =>
       /\ Get(dh_reread).ok
       /\ Get(dh_reread).val = Get(dh_header)
  /\ IsSome(dh_written) =>
       LET h == Get(dh_header)
           w == Get(dh_written)
       IN  /\ Len(w) = 228
           /\ \A i \in 1..7 :
                /\ BEWordAtByte(w, 4 * (i - 1)) = h.text[i].offset
                /\ BEWordAtByte(w, 72 + 4 * (i - 1)) = h.text[i].loading
                /\ BEWordAtByte(w, 144 + 4 * (i - 1)) = h.text[i].size
           /\ \A i \in 1..11 :
                /\ BEWordAtByte(w, 28 + 4 * (i - 1)) = h.data[i].offset
                /\ BEWordAtByte(w, 100 + 4 * (i - 1)) = h.data[i].loading
                /\ BEWordAtByte(w, 172 + 4 * (i - 1)) = h.data[i].size
           /\ BEWordAtByte(w, 216) = h.bss_addr
           /\ BEWordAtByte(w, 220) = h.bss_size
           /\ BEWordAtByte(w, 224) = h.entry_point
  /\ IsSome(dh_rewritten) =>
       /\ Get(dh_rewritten).fresh = SubSeq(dh_image, 1, 228)
       /\ Get(dh_rewritten).over = dh_image

\* both round trips have been made, on a header whose data load table holds
\* the field that was set apart
C7_Witness ==
  /\ IsSome(dh_reread)
  /\ IsSome(dh_rewritten)
  /\ Get(dh_reread).ok
  /\ Get(dh_header).data[2].loading = <<W16 - 1, W16 - 1>>
  /\ Get(dh_parsed).val.text[1].offset # Get(dh_parsed).val.data[1].offset

(***************************************************************************)
(* Claims about the disc header codec (SpecDiscHeader).                    *)
(***************************************************************************)
\* C8: for a header H read from a full 0x440-byte slab, write_to_stream(H)
\* emits exactly 0x440 bytes, equal to the slab, and reading those bytes
\* gives H back field for field.
C8_DiscHeaderRoundTrip ==
  /\ IsSome(gh_header) => Get(gh_header).ok /\ Get(gh_header).pos = 1088
  /\ IsSome(gh_written) =>
       /\ Len(Get(gh_written)) = 1088
       /\ Get(gh_written) = gh_slab
  /\ IsSome(gh_reread) =>
       /\ Get(gh_reread).ok
       /\ Get(gh_reread).val = Get(gh_header).val
       /\ \A i \in 1..Len(GCDiscHeaderReadFields) :
            LET name == GCDiscHeaderReadFields[i].name
            IN  Get(gh_reread).val[name] = Get(gh_header).val[name]

\* the round trip of a slab whose DOL offset field ends in 0xFF has been made
C8_Witness ==
  /\ IsSome(gh_reread)
  /\ Len(gh_slab) = 1088
  /\ Lo(Get(gh_header).val.dol_offset) % W8 = W8 - 1
  /\ Get(gh_header).val.dol_offset # Get(gh_header).val.fst_offset

(***************************************************************************)
(* Claims about the file system table codec (SpecFst).                     *)
(***************************************************************************)
\* what a table region says about entry i: its flag, its name, and its two
\* words (parent and next-index of a directory, offset and length of a file)
RegionCount(region) == ToNat(BEWordAtByte(region, 8))
RegionEntry(region, i) ==
  LET word == BEWordAtByte(region, EntrySize * i)
      names == EntrySize * RegionCount(region)
  IN  [dir |-> Hi(word) \div W8 # 0,
       name |-> read_cstring(region, names + (Hi(word) % W8) * W16 + Lo(word), MaxNameLen),
       second |-> BEWordAtByte(region, EntrySize * i + 4),
       third |-> BEWordAtByte(region, EntrySize * i + 8)]

\* C5: for a tree read from a valid table region B of length L, writing the
\* tree gives a region B' of length L' <= L in which every entry sits at
\* the same index with the same fields (flag, name, parent or data offset,
\* next-index or length) as in B.
C5_FstReserialize ==
  IsSome(fst_rewritten) =>
    LET written == Get(fst_rewritten)
    IN  /\ Len(written) <= Len(fst_region)
        /\ RegionCount(written) = RegionCount(fst_region)
        /\ \A i \in 0..(RegionCount(fst_region) - 1) :
             RegionEntry(written, i) = RegionEntry(fst_region, i)

\* the tree with the children of every directory in the writer's order:
\* files first, then directories, each group in its own order
RECURSIVE FilesFirst(_), FilesFirstAll(_)
FilesFirst(entry) ==
  IF entry.dir
  THEN Directory(entry.name,
                 FilesFirstAll(Files(entry.children) \o Directories(entry.children)))
  ELSE entry
FilesFirstAll(children) ==
  IF children = <<>> THEN <<>>
  ELSE <<FilesFirst(Head(children))>> \o FilesFirstAll(Tail(children))

\* C6: for every tree, reading back the bytes written from it gives a tree
\* with the same directories, the same parent and children for every node,
\* and the same name, offset and length for every file, siblings taken in
\* the writer's files-before-directories order.
C6_FstWriteReadRoundTrip ==
  IsSome(fst_reread) =>
    /\ Get(fst_reread).ok
    /\ Get(fst_reread).val.root = FilesFirst(Get(fst_tree))

(***************************************************************************)
(* Claims about the patchers (Spec).                                       *)
(***************************************************************************)
Succeeded == IsSome(result) /\ Get(result).ok
FailedWith(kind) == IsSome(result) /\ ~Get(result).ok /\ Get(result).err.kind = kind

\* byte offset i (from 0) lies in the region of `len` bytes at `offset`
InRegion(i, offset, len) == offset <= i /\ i < offset + len

\* the regions patch_iso_file rewrites: the header, the FST written at
\* header.fst_offset, the mod DOL at mod_dol_offset, and the banner at
\* header.user_pos when one is configured
InRewrittenRegion(i) ==
  \/ InRegion(i, 0, DiscHeaderLen)
  \/ InRegion(i, ToNat(Get(header).fst_offset), Len(Get(fst_bytes)))
  \/ InRegion(i, ToNat(Get(mod_dol_offset)), Len(Get(patched_dol_bytes)))
  \/ /\ mod_data.config.bnr_file # None
     /\ InRegion(i, ToNat(Get(header).user_pos), Len(bnr_bytes))

\* C1: after patch_iso_file succeeds, the output has the length of the
\* input, and every byte offset outside the header region, the rewritten
\* FST region, the mod DOL region and the banner region holds the byte the
\* input holds there.
C1_IsoSpliceFrame ==
  (ext = "iso" /\ Succeeded) =>
    /\ Len(Get(fs_out)) = Len(fs_in)
    /\ \A i \in 0..(Len(fs_in) - 1) :
         ~InRewrittenRegion(i) => Get(fs_out)[i + 1] = fs_in[i + 1]

\* a successful ISO patch with a banner whose mod DOL went to offset 0x2000,
\* and whose output differs from the input
C1_Witness ==
  /\ ext = "iso"
  /\ Succeeded
  /\ mod_data.config.bnr_file # None
  /\ Get(mod_dol_offset) = <<0, DolAlign>>
  /\ Get(fs_out) # fs_in

\* the least index of the chain text[0..6], data[0..10] whose descriptor has
\* offset 0, or 0 when there is none
LeastVacant(h) ==
  LET vacant == { k \in 1..NumDescriptors : Descriptors(h)[k].offset = <<0, 0>> }
  IN  IF vacant = {} THEN 0 ELSE CHOOSE k \in vacant : \A j \in vacant : k <= j

\* C2: each time patch_dol appends a mod segment with data, load address A
\* and size S at output offset L (the length of the output before the
\* append), the first vacant descriptor in the order text[0..6], data[0..10]
\* becomes (L, A, S), and every other descriptor, bss_addr, bss_size and
\* entry_point keep their values.
C2_AppenderFrame ==
  [][ ( /\ pc = "pd_segments"
        /\ segment_index <= Len(Get(mod_file).segments)
        /\ Get(mod_file).segments[segment_index].data # <<>>
        /\ LeastVacant(Get(dol_header)) # 0 )
      =>
      LET segment == Get(mod_file).segments[segment_index]
          L == Len(Get(output_bytes))
          k == LeastVacant(Get(dol_header))
          before == Get(dol_header)
          after == Get(dol_header')
      IN  /\ pc' = "pd_segments"
          /\ Get(output_bytes') = Get(output_bytes) \o segment.data
          /\ Descriptors(after)[k] =
               Descriptor(FromNat(L), segment.address, segment.size)
          /\ \A j \in 1..NumDescriptors :
               j # k => Descriptors(after)[j] = Descriptors(before)[j]
          /\ after.bss_addr = before.bss_addr
          /\ after.bss_size = before.bss_size
          /\ after.entry_point = before.entry_point
    ]_vars

\* two segments have been appended to a DOL whose text descriptors were all
\* taken: data[0] and data[1] hold them
C2_Witness ==
  /\ pc = "pd_arena"
  /\ Len(Get(output_bytes)) > Len(Get(dol_bytes))
  /\ Get(dol_header).data[1].offset = FromNat(Len(Get(dol_bytes)))
  /\ Get(dol_header).data[2].loading = ModSegment(2).address
  /\ \A k \in 1..NumText : Get(dol_header).text[k].offset # <<0, 0>>

\* C9: patch_dol_file and patch_iso_file fail with the output-exists error,
\* before the input is read or the destination touched, when the
\* destination exists and overwrite_output is false; with overwrite_output
\* true an existing destination is no reason to fail.
C9_OverwriteRefusal ==
  /\ FailedWith("OutputExists") =>
       /\ ~mod_data.overwrite_output
       /\ ~input_read
       /\ fs_out = Some(OldDestination)
  /\ (pc \in {"dol_read", "iso_hash"}) =>
       ~(fs_out # None /\ ~mod_data.overwrite_output)

\* patch_dol has gone through its hash check
HashChecked == dol_bytes # None /\ pc # "pd_hash"

\* C10: when expected_dol_hash is set and differs from the lowercase
\* hexadecimal digest of the input DOL, patch_dol fails with an error that
\* carries the expected and the actual digest, with no header parsed, no
\* output produced and the destination as it was; when expected_dol_hash is
\* unset (also after --ignore-hash cleared it) no run ends in that error.
C10_HashVerification ==
  LET expected_dol_hash == mod_data.config.expected_dol_hash
  IN  /\ ( /\ HashChecked
           /\ expected_dol_hash # None
           /\ HexLower(Md5(Get(dol_bytes))) # Get(expected_dol_hash) )
         => /\ result = Some(Err([kind |-> "DolHashMismatch",
                                  expected |-> Get(expected_dol_hash),
                                  got |-> HexLower(Md5(Get(dol_bytes)))]))
            /\ dol_header = None
            /\ output_bytes = None
            /\ fs_out \in {None, Some(OldDestination)}
      /\ expected_dol_hash = None => ~FailedWith("DolHashMismatch")

\* a run that ended in the hash-mismatch error although the expected hash
\* is the digest of the input, written in capitals
C10_Witness ==
  /\ FailedWith("DolHashMismatch")
  /\ Get(result).err.expected # Get(result).err.got
  /\ Get(result).err.expected = UpperHex(Get(result).err.got)

\* the segments with data of the mod, and the descriptors with offset 0 of
\* the header the input DOL starts with
RECURSIVE CountWithData(_)
CountWithData(segments) ==
  IF segments = <<>> THEN 0
  ELSE (IF Head(segments).data # <<>> THEN 1 ELSE 0) + CountWithData(Tail(segments))
VacantAtStart ==
  LET h == DolHeader_read_from_stream(Get(dol_bytes)).val
  IN  Cardinality({ k \in 1..NumDescriptors : Descriptors(h)[k].offset = <<0, 0>> })
\* patch_dol has left its loop over the segments of the mod
SegmentLoopLeft == mod_file # None /\ ~(pc = "pd_segments")

\* C11: when the mod has more segments with data than the header of the
\* input DOL has vacant descriptors, patch_dol fails with the
\* no-available-DOL-segment error and hands no output bytes to its caller
\* (nothing is written to the destination); when it has no more than that,
\* the loop never fails with that error.
C11_CapacityFailure ==
  SegmentLoopLeft =>
    IF CountWithData(Get(mod_file).segments) > VacantAtStart
    THEN /\ FailedWith("NoAvailableDolSegment")
         /\ patched_dol_bytes = None
         /\ fs_out \in {None, Some(OldDestination)}
    ELSE ~FailedWith("NoAvailableDolSegment")

\* the run failed for capacity on a DOL with one vacant descriptor, after
\* the first segment with data took it
C11_Witness ==
  /\ FailedWith("NoAvailableDolSegment")
  /\ VacantAtStart = 1
  /\ Get(dol_header).data[NumData].offset = FromNat(Len(Get(dol_bytes)))

\* the gaps between consecutive ranges of a list in ascending offset order:
\* the pairs (end of range i, start of range i + 1) with end < start
ConsecutiveGaps(ranges) ==
  LET between == { i \in 1..(Len(ranges) - 1) : Lt32(ranges[i][2], ranges[i + 1][1]) }
  IN  [i \in between |-> <<ranges[i][2], ranges[i + 1][1]>>]
\* the indices of the gaps that can hold len bytes
Fitting(gaps, len) == { i \in DOMAIN gaps : Le32(len, Sub32(gaps[i][2], gaps[i][1])) }

\* patch_iso_file has searched the gaps for the patched DOL and has not yet
\* entered the mod DOL in the FST
GapSearched == patched_dol_bytes # None /\ pc # "iso_gap" /\ mod_dol_offset = None

\* C12: among the gaps between consecutive file ranges in ascending offset
\* order, the ISO patcher chooses the first whose size is at least the
\* length of the patched DOL; it fails with the no-suitable-gap error, the
\* destination not yet created, exactly when no gap has that size.
C12_GapSelection ==
  GapSearched =>
    LET gaps == ConsecutiveGaps(get_ranges(Get(fst)))
        fitting == Fitting(gaps, FromNat(Len(Get(patched_dol_bytes))))
    IN  IF fitting = {}
        THEN FailedWith("NoSuitableGap") /\ fs_out = None
        ELSE /\ ~FailedWith("NoSuitableGap")
             /\ chosen_gap = Some(gaps[CHOOSE i \in fitting : \A j \in fitting : i <= j])

\* ---------------------------------------------------------------------
\* SpecGap: the gap search of patch_iso_file on its own.  A file system
\* table of files that do not overlap and the length of a patched DOL are
\* drawn; get_ranges, convert_ranges_to_gaps, the search loop and the
\* placement run one after the other.
\* ---------------------------------------------------------------------

\* the most files of a drawn table
MaxGapFiles == 3
\* 0x1000, 0x2000, 0x5000, 0x9000, 0xC000
GapOffsets == {4096, 8192, 20480, 36864, 49152}
\* 0 (an empty file), 0x1000, 0x3000, 0x8000 (a file that reaches over the
\* files behind it)
GapFileLengths == {0, 4096, 12288, 32768}
\* 0x800, 0x2800, 0x4000
GapDolLengths == {2048, 10240, 16384}

RECURSIVE GapFiles(_, _)
\* the files of a drawn table, in descending order of offset
GapFiles(offsets, length_of) ==
  IF offsets = {} THEN <<>>
  ELSE LET top == CHOOSE o \in offsets : \A p \in offsets : p <= o
       IN  <<File(NodeName(top \div 4096), FromNat(top), FromNat(length_of[top]))>>
             \o GapFiles(offsets \ {top}, length_of)

Disjoint(offsets, length_of) ==
  \A o, p \in offsets : o < p => o + length_of[o] <= p

GapTables ==
  { Directory(RootName, GapFiles(offsets, length_of)) :
      <<offsets, length_of>> \in
        { pair \in (SUBSET GapOffsets) \X [GapOffsets -> GapFileLengths] :
            /\ Cardinality(pair[1]) <= MaxGapFiles
            /\ \A o \in GapOffsets \ pair[1] : pair[2][o] = 4096 } }

InitGap ==
  /\ gp_pc = "ranges"
  /\ gp_fst \in { Some(t) : t \in GapTables }
  /\ gp_len \in { FromNat(n) : n \in GapDolLengths }
  /\ gp_ranges = None
  /\ gp_gaps = None
  /\ gp_chosen = None
  /\ gp_offset = None
  /\ IdleInsn
  /\ IdleDolHeader
  /\ IdleDiscHeader
  /\ IdleFst
  /\ IdlePatch
  /\ IdleStream
  /\ IdleSubstream
  /\ IdleGui
  /\ IdleSplice

\* patch_iso_file: fst.root.get_ranges()
GapGetRanges ==
  /\ gp_pc = "ranges"
  /\ gp_ranges' = Some(get_ranges(Get(gp_fst)))
  /\ gp_pc' = "gaps"
  /\ UNCHANGED <<gp_fst, gp_len, gp_gaps, gp_chosen, gp_offset>>
  /\ UNCHANGED <<varsInsn, varsDolHeader, varsDiscHeader, varsFst, varsPatch, varsStream, varsSubstream, varsGui, varsSplice>>

\* patch_iso_file: convert_ranges_to_gaps(&file_ranges)
GapConvert ==
  /\ gp_pc = "gaps"
  /\ LET gaps == convert_ranges_to_gaps(Get(gp_ranges))
     IN  /\ gp_gaps' = IF gaps.ok THEN Some(gaps.val) ELSE gp_gaps
         /\ gp_offset' = IF gaps.ok THEN gp_offset ELSE Some(gaps)
         /\ gp_pc' = IF gaps.ok THEN "choose" ELSE "done"
  /\ UNCHANGED <<gp_fst, gp_len, gp_ranges, gp_chosen>>
  /\ UNCHANGED <<varsInsn, varsDolHeader, varsDiscHeader, varsFst, varsPatch, varsStream, varsSubstream, varsGui, varsSplice>>

\* patch_iso_file: the search loop and the 'no suitable gap' error
GapChoose ==
  /\ gp_pc = "choose"
  /\ LET chosen == choose_gap(Get(gp_gaps), gp_len)
     IN  /\ gp_chosen' = chosen
         /\ gp_offset' = IF chosen = None THEN Some(Err([kind |-> "NoSuitableGap"]))
                         ELSE gp_offset
         /\ gp_pc' = IF chosen = None THEN "done" ELSE "place"
  /\ UNCHANGED <<gp_fst, gp_len, gp_ranges, gp_gaps>>
  /\ UNCHANGED <<varsInsn, varsDolHeader, varsDiscHeader, varsFst, varsPatch, varsStream, varsSubstream, varsGui, varsSplice>>

\* patch_iso_file: chosen_gap.0 - len, then the round-down; the subtraction
\* is a panic in a build with overflow checks when len is the larger, and
\* wraps in a build without them
GapPlace ==
  /\ gp_pc = "place"
  /\ \E overflow_checks \in BOOLEAN :
       LET overflow == Lt32(Get(gp_chosen)[1], gp_len)
       IN  gp_offset' = IF overflow /\ overflow_checks
                        THEN Some(Err([kind |-> "Panic"]))
                        ELSE Some(Ok(place_dol(Get(gp_chosen), gp_len)))
  /\ gp_pc' = "done"
  /\ UNCHANGED <<gp_fst, gp_len, gp_ranges, gp_gaps, gp_chosen>>
  /\ UNCHANGED <<varsInsn, varsDolHeader, varsDiscHeader, varsFst, varsPatch, varsStream, varsSubstream, varsGui, varsSplice>>

NextGap == GapGetRanges \/ GapConvert \/ GapChoose \/ GapPlace

SpecGap == InitGap /\ [][NextGap]_vars

\* (end - len) rounded down to a multiple of 8192, for a gap that fits len
EndAligned(gap, len) ==
  LET top == ToNat(Sub32(gap[2], len)) IN FromNat(top - (top % DolAlign))

\* the file ranges (0x1000,0x2000), (0x5000,0x6000), (0x9000,0xA000)
ExampleRanges ==
  << <<FromNat(4096), FromNat(8192)>>, <<FromNat(20480), FromNat(24576)>>,
     <<FromNat(36864), FromNat(40960)>> >>

GapPlaced == gp_pc = "done" /\ gp_chosen # None

\* C13: once a gap (start, end) is chosen for a patched DOL of length len,
\* the offset of the mod DOL is (end - len) rounded down to a multiple of
\* 8192; for the file ranges (0x1000,0x2000), (0x5000,0x6000),
\* (0x9000,0xA000) and len 0x2800 the gap chosen is (0x6000,0x9000) and the
\* offset is 0x6000.
C13_GapPlacement ==
  GapPlaced =>
    /\ gp_offset = Some(Ok(EndAligned(Get(gp_chosen), gp_len)))
    /\ (gp_ranges = Some(ExampleRanges) /\ gp_len = FromNat(10240)) =>
         /\ gp_chosen = Some(<<FromNat(24576), FromNat(36864)>>)
         /\ gp_offset = Some(Ok(FromNat(24576)))

\* [offset, offset + len) lies in [low, high), without wrapping
RegionInside(offset, len, low, high) ==
  /\ Le32(low, offset)
  /\ Le32(len, high)
  /\ Le32(offset, Sub32(high, len))
\* [offset, offset + len) and [low, high) share no byte
RegionsApart(offset, len, low, high) ==
  \/ Le32(high, offset)
  \/ Le32(len, low) /\ Le32(offset, Sub32(low, len))
  \/ len = <<0, 0>>
  \/ low = high

\* C14: whenever a gap is chosen and an offset computed, the region
\* [mod_dol_offset, mod_dol_offset + len) lies entirely inside the chosen
\* gap and shares no byte with the range of any file of the table, the
\* round-down to the 8 KiB boundary included.
C14_PlacementSafety ==
  (GapPlaced /\ Get(gp_offset).ok) =>
    LET offset == Get(gp_offset).val
    IN  /\ RegionInside(offset, gp_len, Get(gp_chosen)[1], Get(gp_chosen)[2])
        /\ \A i \in DOMAIN Get(gp_ranges) :
             RegionsApart(offset, gp_len, Get(gp_ranges)[i][1], Get(gp_ranges)[i][2])

\* the header and the original DOL of the input disc
SourceHeader == GCDiscHeader_read_from_stream(fs_in, 0).val
SourceDolLength ==
  total_length(DolHeader_read_from_stream(
    SubSeq(fs_in, ToNat(SourceHeader.dol_offset) + 1,
           ToNat(SourceHeader.dol_offset) + DolHeaderSlice)).val)
\* the regions of `a_len` bytes at a and of `b_len` bytes at b share no byte
Apart(a, a_len, b, b_len) == a + a_len <= b \/ b + b_len <= a

IsoPatched == ext = "iso" /\ Succeeded

\* C15: in every successful ISO patch the header region [0, 0x440), the
\* region of the re-serialized FST at fst_offset and the region of the mod
\* DOL at mod_dol_offset are pairwise disjoint, and the FST region is
\* disjoint from the region of the original DOL.
C15_WriteRegionsDisjoint ==
  IsoPatched =>
    LET fst_offset == ToNat(Get(header).fst_offset)
        fst_len == Len(Get(fst_bytes))
        dol_offset == ToNat(Get(mod_dol_offset))
        dol_len == Len(Get(patched_dol_bytes))
    IN  /\ Apart(0, DiscHeaderLen, fst_offset, fst_len)
        /\ Apart(0, DiscHeaderLen, dol_offset, dol_len)
        /\ Apart(fst_offset, fst_len, dol_offset, dol_len)
        /\ Apart(fst_offset, fst_len, ToNat(SourceHeader.dol_offset), SourceDolLength)

\* ---------------------------------------------------------------------
\* SpecStream: the reads of BinStreamRead on a cursor.  A byte buffer and
\* a position in it are drawn, and one read is applied.
\* ---------------------------------------------------------------------

\* BinStreamRead::read_u8 and read_u16 with the cursor at pos
read_u8(buf, pos) ==
  LET r == read_exact(buf, pos, 1)
  IN  IF r.ok THEN Ok(r.val[1]) ELSE r
read_u16(buf, pos) ==
  LET r == read_exact(buf, pos, 2)
  IN  IF r.ok THEN Ok(FromBE16(r.val)) ELSE r

\* String::from_utf8: whether the bytes are well-formed UTF-8
IsCont(b) == b >= 128 /\ b <= 191
RECURSIVE Utf8Valid(_)
Utf8Valid(b) ==
  IF b = <<>> THEN TRUE
  ELSE LET h == b[1]
           n == Len(b)
       IN  IF h <= 127 THEN Utf8Valid(Tail(b))
           ELSE IF h >= 194 /\ h <= 223
             THEN n >= 2 /\ IsCont(b[2]) /\ Utf8Valid(SubSeq(b, 3, n))
           ELSE IF h >= 224 /\ h <= 239
             THEN /\ n >= 3
                  /\ IsCont(b[2]) /\ IsCont(b[3])
                  /\ (h = 224 => b[2] >= 160)
                  /\ (h = 237 => b[2] <= 159)
                  /\ Utf8Valid(SubSeq(b, 4, n))
           ELSE IF h >= 240 /\ h <= 244
             THEN /\ n >= 4
                  /\ IsCont(b[2]) /\ IsCont(b[3]) /\ IsCont(b[4])
                  /\ (h = 240 => b[2] >= 144)
                  /\ (h = 244 => b[2] <= 143)
                  /\ Utf8Valid(SubSeq(b, 5, n))
           ELSE FALSE

\* BinStreamRead::read_string with the cursor at pos: read_bytes, then
\* String::from_utf8 (the size always fits a u32 here)
read_string(buf, pos, size) ==
  LET r == read_bytes(buf, pos, size)
  IN  IF Utf8Valid(r.val) THEN Ok(r.val) ELSE Err("Other")

\* the longest small buffer drawn, and the largest size asked of
\* read_bytes and read_string
MaxStreamLen == 3
\* NUL, 'A', and the two bytes of U+00E9
StreamBytes == {0, 65, 195, 169}
RECURSIVE BuffersOfLen(_)
BuffersOfLen(n) ==
  IF n = 0 THEN {<<>>}
  ELSE { <<b>> \o rest : b \in StreamBytes, rest \in BuffersOfLen(n - 1) }
SmallBuffers == UNION { BuffersOfLen(n) : n \in 0..MaxStreamLen }
\* a whole disc header, and the header cut short at the end, inside
\* game_name and inside unused_1
HeaderBuffers ==
  { SubSeq(DrawnSlab(0, 0), 1, n) :
      n \in {DiscHeaderLen, DiscHeaderLen - 1, DiscHeaderLen \div 2, 16} }

InitStream ==
  /\ \/ st_buf \in SmallBuffers /\ st_pos \in 0..Len(st_buf)
     \/ st_buf \in HeaderBuffers /\ st_pos = 0
  /\ st_before = st_pos
  /\ st_op = "none"
  /\ st_size = 0
  /\ st_result = None
  /\ IdleInsn
  /\ IdleDolHeader
  /\ IdleDiscHeader
  /\ IdleFst
  /\ IdlePatch
  /\ IdleGap
  /\ IdleSubstream
  /\ IdleGui
  /\ IdleSplice

\* stream.read_u8()
StreamReadU8 ==
  /\ st_op = "none"
  /\ LET r == read_u8(st_buf, st_pos)
     IN  /\ st_result' = Some(r)
         /\ st_pos' = IF r.ok THEN st_pos + 1 ELSE st_pos
  /\ st_op' = "read_u8"
  /\ st_size' = 1
  /\ UNCHANGED <<st_buf, st_before>>
  /\ UNCHANGED <<varsInsn, varsDolHeader, varsDiscHeader, varsFst, varsPatch, varsGap, varsSubstream, varsGui, varsSplice>>

\* stream.read_u16()
StreamReadU16 ==
  /\ st_op = "none"
  /\ LET r == read_u16(st_buf, st_pos)
     IN  /\ st_result' = Some(r)
         /\ st_pos' = IF r.ok THEN st_pos + 2 ELSE st_pos
  /\ st_op' = "read_u16"
  /\ st_size' = 2
  /\ UNCHANGED <<st_buf, st_before>>
  /\ UNCHANGED <<varsInsn, varsDolHeader, varsDiscHeader, varsFst, varsPatch, varsGap, varsSubstream, varsGui, varsSplice>>

\* stream.read_u32()
StreamReadU32 ==
  /\ st_op = "none"
  /\ LET r == read_u32(st_buf, st_pos)
     IN  /\ st_result' = Some(r)
         /\ st_pos' = IF r.ok THEN st_pos + 4 ELSE st_pos
  /\ st_op' = "read_u32"
  /\ st_size' = 4
  /\ UNCHANGED <<st_buf, st_before>>
  /\ UNCHANGED <<varsInsn, varsDolHeader, varsDiscHeader, varsFst, varsPatch, varsGap, varsSubstream, varsGui, varsSplice>>

\* stream.read_bytes(size)
StreamReadBytes ==
  /\ st_op = "none"
  /\ \E size \in 0..MaxStreamLen :
       LET r == read_bytes(st_buf, st_pos, size)
       IN  /\ st_result' = Some(Ok(r.val))
           /\ st_pos' = r.pos
           /\ st_size' = size
  /\ st_op' = "read_bytes"
  /\ UNCHANGED <<st_buf, st_before>>
  /\ UNCHANGED <<varsInsn, varsDolHeader, varsDiscHeader, varsFst, varsPatch, varsGap, varsSubstream, varsGui, varsSplice>>

\* stream.read_string(size)
StreamReadString ==
  /\ st_op = "none"
  /\ \E size \in 0..MaxStreamLen :
       /\ st_result' = Some(read_string(st_buf, st_pos, size))
       /\ st_pos' = read_bytes(st_buf, st_pos, size).pos
       /\ st_size' = size
  /\ st_op' = "read_string"
  /\ UNCHANGED <<st_buf, st_before>>
  /\ UNCHANGED <<varsInsn, varsDolHeader, varsDiscHeader, varsFst, varsPatch, varsGap, varsSubstream, varsGui, varsSplice>>

\* GCDiscHeader::read_from_stream(stream)
StreamReadHeader ==
  /\ st_op = "none"
  /\ LET r == GCDiscHeader_read_from_stream(st_buf, st_pos)
     IN  /\ st_result' = Some(IF r.ok THEN Ok(r.val) ELSE Err(r.err))
         /\ st_pos' = r.pos
  /\ st_op' = "read_header"
  /\ st_size' = DiscHeaderLen
  /\ UNCHANGED <<st_buf, st_before>>
  /\ UNCHANGED <<varsInsn, varsDolHeader, varsDiscHeader, varsFst, varsPatch, varsGap, varsSubstream, varsGui, varsSplice>>

NextStream ==
  \/ StreamReadU8 \/ StreamReadU16 \/ StreamReadU32
  \/ StreamReadBytes \/ StreamReadString \/ StreamReadHeader

SpecStream == InitStream /\ [][NextStream]_vars

\* C16: every read of BinStreamRead (read_u8, read_u16, read_u32,
\* read_bytes(N), read_string(N), GCDiscHeader::read_from_stream) returns an
\* error when fewer bytes than it asks for remain in the stream; none
\* returns Ok with a truncated or zero-padded buffer.
C16_ShortReadsAreErrors ==
  (st_op # "none" /\ st_size > Len(st_buf) - st_before) => ~Get(st_result).ok

\* ---------------------------------------------------------------------
\* SpecSubstream: SubstreamReader over a cursor.  The parent's bytes and a
\* window are drawn, SubstreamReader::new seeks the parent to the start of
\* the window, and seeks and reads follow in any order.
\* ---------------------------------------------------------------------

\* the largest start and the largest length of a window, and the largest
\* distance and size asked of a seek and of a read
MaxWindow == 2

\* an i64 offset: a small value v, or i64::MIN
Off(v) == [min |-> FALSE, v |-> v]
MinI64 == [min |-> TRUE, v |-> 0]
SeekOffsets == { Off(v) : v \in (0 - MaxWindow - 1)..(MaxWindow + 1) } \cup {MinI64}

\* A u64 is kept as the representative nearest to 0 of its class modulo
\* 2^64: n >= 0 stands for n and n < 0 for 2^64 + n, a value just below
\* 2^64.  The sum and the difference of two representatives are the
\* representatives of the wrapped sum and difference.
Lt64(a, b) == IF (a < 0) = (b < 0) THEN a < b ELSE b < 0
Le64(a, b) == a = b \/ Lt64(a, b)
\* a + b leaves u64
Carry64(a, b) == (a < 0 \/ b < 0) /\ (a + b >= 0 \/ (a < 0 /\ b < 0))

\* u64::checked_add and checked_sub of a position and the magnitude of an
\* offset: None when the result leaves u64.  The magnitude of i64::MIN is
\* 2^63: there is no position 2^63 below a position near 0, and the one
\* 2^63 below a position near 2^64 lies near 2^63, in no window drawn
\* (their bounds are near 0 or near 2^64), so that both end in the
\* InvalidInput branch.
checked_add(pos, mag) == IF Carry64(pos, mag) THEN None ELSE Some(pos + mag)
checked_sub(pos, offset) ==
  IF offset.min \/ Lt64(pos, 0 - offset.v) THEN None ELSE Some(pos + offset.v)

\* Read::read of Cursor at pos into a buffer of n bytes: nothing at a
\* position at or beyond the end of the buffer
cursor_read(buf, pos, n) ==
  LET taken == IF pos < 0 THEN 0 ELSE Min(n, Max(0, Len(buf) - pos))
  IN  [val |-> SubSeq(buf, pos + 1, pos + taken), pos |-> pos + taken]

\* SubstreamReader::seek with the parent's cursor at `inner`: the result,
\* and the position of the parent's cursor after it.  (-offset) overflows
\* for i64::MIN, and start + offset, start + length and new_pos - start
\* leave u64 for a window that reaches beyond 2^64: a panic in a build
\* with overflow checks, the wrapped value in one without.
substream_seek(start, length, inner, kind, offset, overflow_checks) ==
  LET invalid == [result |-> Err("InvalidInput"), inner |-> inner]
      panic == [result |-> Err("Panic"), inner |-> inner]
      moved(pos) ==
        IF Lt64(pos, start) /\ overflow_checks
        THEN [result |-> Err("Panic"), inner |-> pos]
        ELSE [result |-> Ok(pos - start), inner |-> pos]
      from(base) ==
        IF ~offset.min /\ offset.v >= 0 THEN checked_add(base, offset.v)
        ELSE checked_sub(base, offset)
      within(target) ==
        IF target # None /\ Le64(start, Get(target))
        THEN IF Carry64(start, length) /\ overflow_checks THEN panic
             ELSE IF Le64(Get(target), start + length) THEN moved(Get(target))
             ELSE invalid
        ELSE invalid
  IN  IF kind = "Start"
        THEN IF Lt64(length, offset.v) THEN invalid
             ELSE IF Carry64(start, offset.v) /\ overflow_checks THEN panic
             ELSE moved(start + offset.v)
      ELSE IF kind = "End"
        THEN IF (Carry64(start, length) \/ offset.min) /\ overflow_checks THEN panic
             ELSE within(from(start + length))
      ELSE IF offset.min /\ overflow_checks THEN panic
      ELSE within(from(inner))

\* SubstreamReader::read with the parent's cursor at `inner`: the bytes
\* read (a panic of current_pos - start in a build with overflow checks),
\* and the position of the parent's cursor after it
substream_read(parent, start, length, inner, n, overflow_checks) ==
  LET consumed == inner - start
      bytes_left == IF Le64(length, consumed) THEN 0 ELSE length - consumed
      to_read == Min(n, bytes_left)
      done(r) == [result |-> Ok(r.val), inner |-> r.pos]
  IN  IF Lt64(inner, start) /\ overflow_checks
      THEN [result |-> Err("Panic"), inner |-> inner]
      ELSE IF bytes_left = 0 THEN done([val |-> <<>>, pos |-> inner])
      ELSE done(cursor_read(parent, inner, to_read))

\* the parents drawn: one longer than every window, one that ends inside
\* the larger windows
DrawnParent(len) == [i \in 1..len |-> 16 + i]
DrawnParents == { DrawnParent(2 * MaxWindow + 2), DrawnParent(MaxWindow + 1) }

\* the starts drawn: near 0, and so near 2^64 that the larger windows reach
\* beyond u64
WindowStarts == (0 - MaxWindow)..MaxWindow

\* SubstreamReader::new
InitSubstream ==
  /\ ss_parent \in DrawnParents
  /\ ss_start \in WindowStarts
  /\ ss_length \in 0..MaxWindow
  /\ ss_inner = ss_start
  /\ ss_op = [name |-> "none"]
  /\ ss_result = None
  /\ IdleInsn
  /\ IdleDolHeader
  /\ IdleDiscHeader
  /\ IdleFst
  /\ IdlePatch
  /\ IdleGap
  /\ IdleStream
  /\ IdleGui
  /\ IdleSplice

Panicked == ss_result # None /\ ~Get(ss_result).ok /\ Get(ss_result).err = "Panic"

\* reader.seek(SeekFrom::Start(offset)), an u64 offset
SeekStart ==
  /\ ~Panicked
  /\ \E v \in 0..(MaxWindow + 1), overflow_checks \in BOOLEAN :
       LET r == substream_seek(ss_start, ss_length, ss_inner, "Start", Off(v), overflow_checks)
       IN  /\ ss_result' = Some(r.result)
           /\ ss_inner' = r.inner
           /\ ss_op' = [name |-> "seek", kind |-> "Start", offset |-> Off(v)]
  /\ UNCHANGED <<ss_parent, ss_start, ss_length>>
  /\ UNCHANGED <<varsInsn, varsDolHeader, varsDiscHeader, varsFst, varsPatch, varsGap, varsStream, varsGui, varsSplice>>

\* reader.seek(SeekFrom::End(offset))
SeekEnd ==
  /\ ~Panicked
  /\ \E offset \in SeekOffsets, overflow_checks \in BOOLEAN :
       LET r == substream_seek(ss_start, ss_length, ss_inner, "End", offset, overflow_checks)
       IN  /\ ss_result' = Some(r.result)
           /\ ss_inner' = r.inner
           /\ ss_op' = [name |-> "seek", kind |-> "End", offset |-> offset]
  /\ UNCHANGED <<ss_parent, ss_start, ss_length>>
  /\ UNCHANGED <<varsInsn, varsDolHeader, varsDiscHeader, varsFst, varsPatch, varsGap, varsStream, varsGui, varsSplice>>

\* reader.seek(SeekFrom::Current(offset))
SeekCurrent ==
  /\ ~Panicked
  /\ \E offset \in SeekOffsets, overflow_checks \in BOOLEAN :
       LET r == substream_seek(ss_start, ss_length, ss_inner, "Current", offset, overflow_checks)
       IN  /\ ss_result' = Some(r.result)
           /\ ss_inner' = r.inner
           /\ ss_op' = [name |-> "seek", kind |-> "Current", offset |-> offset]
  /\ UNCHANGED <<ss_parent, ss_start, ss_length>>
  /\ UNCHANGED <<varsInsn, varsDolHeader, varsDiscHeader, varsFst, varsPatch, varsGap, varsStream, varsGui, varsSplice>>

\* reader.read(&mut buf) with a buffer of n bytes
SubstreamRead ==
  /\ ~Panicked
  /\ \E n \in 0..(MaxWindow + 1), overflow_checks \in BOOLEAN :
       LET r == substream_read(ss_parent, ss_start, ss_length, ss_inner, n, overflow_checks)
       IN  /\ ss_result' = Some(r.result)
           /\ ss_inner' = r.inner
           /\ ss_op' = [name |-> "read", size |-> n]
  /\ UNCHANGED <<ss_parent, ss_start, ss_length>>
  /\ UNCHANGED <<varsInsn, varsDolHeader, varsDiscHeader, varsFst, varsPatch, varsGap, varsStream, varsGui, varsSplice>>

NextSubstream == SeekStart \/ SeekEnd \/ SeekCurrent \/ SubstreamRead

SpecSubstream == InitSubstream /\ [][NextSubstream]_vars

\* the position, relative to the start of the window, a seek aims at
SeekBase(kind) ==
  IF kind = "Start" THEN 0
  ELSE IF kind = "End" THEN ss_length
  ELSE ss_inner - ss_start
\* the target of the seek lies in the window (its end included)
InWindow(kind, offset) ==
  /\ ~offset.min
  /\ SeekBase(kind) + offset.v >= 0
  /\ SeekBase(kind) + offset.v <= ss_length
\* the bytes of the parent at start + p, as far as the window, the parent
\* and a buffer of n bytes reach
WindowBytes(p, n) ==
  LET in_parent == IF ss_start < 0 THEN 0 ELSE Max(0, Len(ss_parent) - (ss_start + p))
      reach == Min(n, Min(ss_length - p, in_parent))
  IN  SubSeq(ss_parent, ss_start + p + 1, ss_start + p + reach)

SeekContract ==
  ss_op'.name = "seek" =>
    IF InWindow(ss_op'.kind, ss_op'.offset)
    THEN ss_result' = Some(Ok(SeekBase(ss_op'.kind) + ss_op'.offset.v))
    ELSE ss_result' = Some(Err("InvalidInput"))
ReadAfterSeek ==
  (ss_op'.name = "read" /\ ss_op.name = "seek" /\ Get(ss_result).ok) =>
    ss_result' = Some(Ok(WindowBytes(Get(ss_result).val, ss_op'.size)))

\* C17: a seek of a SubstreamReader over [start, start + length) whose
\* target lies outside the window fails with InvalidInput, whichever of
\* Start, End and Current it is; a seek whose target lies in the window
\* succeeds and returns the position relative to start; and a read that
\* follows a successful seek returns the parent's bytes at start plus that
\* position.
C17_SubstreamSeekContract == [][SeekContract /\ ReadAfterSeek]_vars

\* ---------------------------------------------------------------------
\* SpecGui: the application of gcn-static-patcher-gui and its worker
\* threads.  Each frame the application drains its two channels and
\* spawns a worker for a file picked with 'Open file' and for a file
\* dropped.  What handle_patch_for_file makes of the file is drawn when the
\* worker ends: a patch done, an error, a mod loaded from an ELF, or a
\* panic of the thread.
\* ---------------------------------------------------------------------

\* the most workers spawned in a run, and the most records a worker sends
\* while it patches
MaxWorkers == 2
MaxProgress == 1

\* Progress::new and Progress::new_error
Progress_new(current, total, description) ==
  [current |-> current, total |-> total, description |-> Some(description), error |-> FALSE]
Progress_new_error(description) ==
  [current |-> 0, total |-> 0, description |-> Some(description), error |-> TRUE]

\* what a file picked or dropped is: a .dol, an .iso or .gcm, anything else
FileKinds == {"dol", "iso", "other"}
\* the messages of the errors of handle_patch_for_file
NoModMessage == "No mod data loaded to patch DOL"
PatchMessages == {"Output file already exists", "Could not find a suitable gap"}
OtherMessages == {"Unsupported file type"}

Running == { w \in DOMAIN gui_workers : gui_workers[w].pc = "running" }

\* PatcherApp::new
InitGui ==
  /\ gui_mod_data \in {None, Some("mod")}
  /\ gui_progress = Progress_new(0, 0, "Idle")
  /\ gui_progress_chan = <<>>
  /\ gui_mod_chan = 0
  /\ gui_workers = <<>>
  /\ IdleInsn
  /\ IdleDolHeader
  /\ IdleDiscHeader
  /\ IdleFst
  /\ IdlePatch
  /\ IdleGap
  /\ IdleStream
  /\ IdleSubstream
  /\ IdleSplice

\* spawn_patch_thread: a thread is spawned for the path, with a clone of
\* the mod the application holds
spawn_patch_thread(workers, mod_data_clone, kind) ==
  Append(workers, [pc |-> "running", kind |-> kind, has_mod |-> mod_data_clone # None,
                   sent |-> 0, outcome |-> "none", message |-> None, last |-> None])

\* PatcherApp::update, one frame: both channels are drained, the last mod
\* and the last record received are kept; a file picked with 'Open file'
\* and a file dropped each spawn a worker
Update ==
  /\ \E picked \in FileKinds \cup {"none"}, dropped \in FileKinds \cup {"none"} :
       LET received == IF gui_mod_chan > 0 THEN Some("mod") ELSE gui_mod_data
           after_pick == IF picked = "none" THEN gui_workers
                         ELSE spawn_patch_thread(gui_workers, received, picked)
           after_drop == IF dropped = "none" THEN after_pick
                         ELSE spawn_patch_thread(after_pick, received, dropped)
       IN  /\ Len(after_drop) <= MaxWorkers
           /\ gui_mod_data' = received
           /\ gui_mod_chan' = 0
           /\ gui_progress' = IF gui_progress_chan # <<>> THEN Last(gui_progress_chan)
                              ELSE gui_progress
           /\ gui_progress_chan' = <<>>
           /\ gui_workers' = after_drop
  /\ UNCHANGED <<varsInsn, varsDolHeader, varsDiscHeader, varsFst, varsPatch, varsGap, varsStream, varsSubstream, varsSplice>>

\* the closure given to handle_patch_for_file: a record of patch_dol_file
\* or patch_iso_file is sent to the application
WorkerProgress ==
  /\ \E w \in Running :
       LET worker == gui_workers[w]
           record == Progress_new(worker.sent, MaxProgress, "Patching")
       IN  /\ worker.kind \in {"dol", "iso"}
           /\ worker.has_mod
           /\ worker.sent < MaxProgress
           /\ gui_progress_chan' = Append(gui_progress_chan, record)
           /\ gui_workers' = [gui_workers EXCEPT ![w].sent = @ + 1, ![w].last = Some(record)]
  /\ UNCHANGED <<gui_mod_data, gui_progress, gui_mod_chan>>
  /\ UNCHANGED <<varsInsn, varsDolHeader, varsDiscHeader, varsFst, varsPatch, varsGap, varsStream, varsSubstream, varsSplice>>

\* the thread of spawn_patch_thread, from the return of
\* handle_patch_for_file on: a patch done sends the 'Done!' record
WorkerDone ==
  /\ \E w \in Running :
       LET worker == gui_workers[w]
           record == Progress_new(1, 1, "Done!")
       IN  /\ worker.kind \in {"dol", "iso"}
           /\ worker.has_mod
           /\ gui_progress_chan' = Append(gui_progress_chan, record)
           /\ gui_workers' = [gui_workers EXCEPT ![w].pc = "done", ![w].outcome = "ok",
                                                 ![w].last = Some(record)]
  /\ UNCHANGED <<gui_mod_data, gui_progress, gui_mod_chan>>
  /\ UNCHANGED <<varsInsn, varsDolHeader, varsDiscHeader, varsFst, varsPatch, varsGap, varsStream, varsSubstream, varsSplice>>

\* the thread of spawn_patch_thread: a mod loaded from an ELF is sent on
\* the mod channel, and no record
WorkerModData ==
  /\ \E w \in Running :
       /\ gui_workers[w].kind = "other"
       /\ gui_workers' = [gui_workers EXCEPT ![w].pc = "done", ![w].outcome = "mod"]
  /\ gui_mod_chan' = gui_mod_chan + 1
  /\ UNCHANGED <<gui_mod_data, gui_progress, gui_progress_chan>>
  /\ UNCHANGED <<varsInsn, varsDolHeader, varsDiscHeader, varsFst, varsPatch, varsGap, varsStream, varsSubstream, varsSplice>>

\* the thread of spawn_patch_thread: an error of handle_patch_for_file
\* sends the error record with its message
WorkerError ==
  /\ \E w \in Running :
       LET worker == gui_workers[w]
           messages == IF worker.kind = "other" THEN OtherMessages
                       ELSE IF ~worker.has_mod THEN {NoModMessage}
                       ELSE PatchMessages
       IN  \E message \in messages :
             /\ gui_progress_chan' = Append(gui_progress_chan, Progress_new_error(message))
             /\ gui_workers' = [gui_workers EXCEPT ![w].pc = "done", ![w].outcome = "err",
                                  ![w].message = Some(message),
                                  ![w].last = Some(Progress_new_error(message))]
  /\ UNCHANGED <<gui_mod_data, gui_progress, gui_mod_chan>>
  /\ UNCHANGED <<varsInsn, varsDolHeader, varsDiscHeader, varsFst, varsPatch, varsGap, varsStream, varsSubstream, varsSplice>>

\* a panic inside patch_dol_file or patch_iso_file (an index out of the
\* mapped file, an overflow, convert_ranges_to_gaps on no range) unwinds
\* the thread: nothing more is sent
WorkerPanic ==
  /\ \E w \in Running :
       /\ gui_workers[w].kind \in {"dol", "iso"}
       /\ gui_workers[w].has_mod
       /\ gui_workers' = [gui_workers EXCEPT ![w].pc = "done", ![w].outcome = "panic"]
  /\ UNCHANGED <<gui_mod_data, gui_progress, gui_progress_chan, gui_mod_chan>>
  /\ UNCHANGED <<varsInsn, varsDolHeader, varsDiscHeader, varsFst, varsPatch, varsGap, varsStream, varsSubstream, varsSplice>>

NextGui ==
  \/ Update \/ WorkerProgress \/ WorkerDone \/ WorkerModData \/ WorkerError
  \/ WorkerPanic

SpecGui == InitGui /\ [][NextGui]_vars

\* C18: whatever files are dropped and picked, at most one patch worker is
\* running at a time, so that the records in the progress channel come
\* from one producer.
C18_SingleWorker == Cardinality(Running) <= 1

\* worker w ends in this step, with a patch done, failed or panicked
Ends(w) ==
  /\ w \in Running
  /\ gui_workers'[w].pc = "done"
  /\ gui_workers'[w].outcome # "mod"
\* the last record a worker sent tells how its patch ended
TerminalRecordSent ==
  \A w \in DOMAIN gui_workers :
    Ends(w) =>
      LET worker == gui_workers'[w]
      IN  /\ worker.last # None
          /\ IF worker.outcome = "ok"
             THEN /\ ~Get(worker.last).error
                  /\ Get(worker.last).current = Get(worker.last).total
             ELSE /\ Get(worker.last).error
                  /\ Get(worker.last).total = 0
                  /\ Get(worker.last).description = worker.message
\* the records of the channel hold the terminal record of worker w
Pending(w) ==
  /\ gui_workers[w].pc = "done"
  /\ gui_workers[w].outcome \in {"ok", "err"}
  /\ \E i \in DOMAIN gui_progress_chan : gui_progress_chan[i] = Get(gui_workers[w].last)
\* a frame that drains the channel displays the terminal record of every
\* worker whose terminal record it drained
TerminalRecordDisplayed ==
  (gui_progress_chan # <<>> /\ gui_progress_chan' = <<>>) =>
    \A w \in DOMAIN gui_workers :
      Pending(w) =>
        /\ gui_progress' = Get(gui_workers[w].last)
        /\ gui_progress'.error <=> gui_workers[w].outcome # "ok"

\* C19: the last record a worker sends for a patch is an error record
\* (error = true, total = 0, description = the error message) when the
\* patch failed and a non-error completion record when it succeeded; and
\* once the worker has ended and the application has drained the channel,
\* the record displayed is that terminal record, with the error shown
\* exactly when the patch failed.
C19_TerminalRecord == [][TerminalRecordSent /\ TerminalRecordDisplayed]_vars

\* per entry of a tree in pre-order, the index of the directory that holds
\* it (0 for the root itself)
RECURSIVE ParentIndexes(_, _, _), ParentIndexesAll(_, _, _)
ParentIndexes(entry, index, parent) ==
  <<parent>> \o (IF entry.dir THEN ParentIndexesAll(entry.children, index + 1, index)
                 ELSE <<>>)
ParentIndexesAll(children, index, parent) ==
  IF children = <<>> THEN <<>>
  ELSE ParentIndexes(Head(children), index, parent)
       \o ParentIndexesAll(Tail(children), index + count(Head(children)), parent)

\* the directories of a table region whose range (i, next_index(i))
\* contains k, and the innermost of them
Enclosing(region, k) ==
  { i \in 0..(k - 1) :
      RegionEntry(region, i).dir /\ k < ToNat(RegionEntry(region, i).third) }
InnermostDir(region, k) ==
  CHOOSE i \in Enclosing(region, k) : \A j \in Enclosing(region, k) : j <= i

\* C20: FST::read_from_stream of a valid table makes the entry at every
\* index k a child of the innermost directory whose range
\* (i, next_index(i)) contains k: every directory that ends at k is popped
\* before entry k is attached.
C20_ReaderParents ==
  (IsSome(fst_parsed) /\ Get(fst_parsed).ok) =>
    LET parents == ParentIndexes(Get(fst_parsed).val.root, 0, 0)
    IN  /\ Len(parents) = RegionCount(fst_region)
        /\ \A k \in 1..(RegionCount(fst_region) - 1) :
             parents[k + 1] = InnermostDir(fst_region, k)

\* the rows of the table that holds a tree in the writer's order: per
\* entry, the parent and the index of the first entry after its subtree
WriterRows(tree) == Rows(FilesFirst(tree), 0, 0)

\* C21: in the bytes FST::write_to_stream produces for a tree of N entries,
\* entry 0 is a directory with parent field 0 and next-index N, and every
\* other directory at index i carries the index of its parent and, as its
\* next-index, the index of the first entry after its whole subtree
\* (i + 1 + the number of all its descendants).
C21_WriterSubtreeBounds ==
  IsSome(fst_written) =>
    LET written == Get(fst_written)
        rows == WriterRows(Get(fst_tree))
    IN  /\ RegionEntry(written, 0).dir
        /\ RegionEntry(written, 0).second = <<0, 0>>
        /\ RegionEntry(written, 0).third = FromNat(count(Get(fst_tree)))
        /\ \A i \in 1..(Len(rows) - 1) :
             rows[i + 1].dir =>
               /\ RegionEntry(written, i).dir
               /\ RegionEntry(written, i).second = rows[i + 1].second
               /\ RegionEntry(written, i).third = rows[i + 1].third

\* the entries of a tree in pre-order, the children of every directory
\* taken files first and directories after, each group in the order the
\* tree holds it
RECURSIVE PreOrder(_), PreOrderAll(_)
PreOrder(entry) ==
  <<entry>> \o
  (IF entry.dir
   THEN PreOrderAll(SelectSeq(entry.children, LAMBDA c : ~c.dir)
                    \o SelectSeq(entry.children, LAMBDA c : c.dir))
   ELSE <<>>)
PreOrderAll(children) ==
  IF children = <<>> THEN <<>>
  ELSE PreOrder(Head(children)) \o PreOrderAll(Tail(children))

\* the name offset that the first word of entry i of a table region holds
RegionNameOffset(region, i) ==
  LET word == BEWordAtByte(region, EntrySize * i)
  IN  (Hi(word) % W8) * W16 + Lo(word)

\* C22: whatever the order of the children in memory, write_to_stream gives
\* the entries their indices and their names their string-table offsets in
\* strictly increasing pre-order, and within every directory the file
\* children come before the directory children, files in their relative
\* order and directories in theirs.
C22_WriterOrdering ==
  IsSome(fst_written) =>
    LET written == Get(fst_written)
        order == PreOrder(Get(fst_tree))
    IN  /\ RegionCount(written) = Len(order)
        /\ \A i \in 0..(Len(order) - 1) :
             /\ RegionEntry(written, i).dir = order[i + 1].dir
             /\ RegionEntry(written, i).name = Ok(order[i + 1].name)
             /\ RegionNameOffset(written, i) = NameOffset(order, i + 1)
             /\ i > 0 => RegionNameOffset(written, i) > RegionNameOffset(written, i - 1)
             /\ ~order[i + 1].dir =>
                  /\ RegionEntry(written, i).second = order[i + 1].offset
                  /\ RegionEntry(written, i).third = order[i + 1].length

\* a tree is written whose root holds, in memory, a directory that is not
\* empty before two files
C22_Witness ==
  /\ IsSome(fst_written)
  /\ LET children == Get(fst_tree).children
     IN  \E d, p, q \in DOMAIN children :
           /\ d < p /\ p < q
           /\ children[d].dir /\ children[d].children # <<>>
           /\ ~children[p].dir /\ ~children[q].dir

(***************************************************************************)
(* The splice operation: patch_dol_addr_32 (src/src/patch_dol.rs) applied  *)
(* to drawn headers, buffers and addresses.                                *)
(***************************************************************************)
\* the number of descriptors of a drawn header that are drawn from the pool
MaxSpliceSlots == 3

\* the chain index of the j-th drawn descriptor: text[0], data[0], text[1], ...
SlotIndex(j) == IF j % 2 = 1 THEN (j + 1) \div 2 ELSE NumText + j \div 2

\* the pool: a segment, two aliases of it (one whose file range overlaps
\* the segment's by two bytes), a segment that ends with the buffer, a
\* segment whose load range reaches 2^32, and the vacant descriptor
SplicePool ==
  { Descriptor(<<0, 4>>, Addr(100), <<0, 8>>),
    Descriptor(<<0, 16>>, Addr(96), <<0, 12>>),
    Descriptor(<<0, 6>>, Addr(100), <<0, 8>>),
    Descriptor(<<0, 24>>, Addr(200), <<0, 8>>),
    Descriptor(<<0, 8>>, <<W16 - 1, W16 - 8>>, <<0, 8>>),
    VacantDescriptor }
SpliceBuffer == [i \in 1..28 |-> 32 + i]
SpliceAddrs == { Addr(100), Addr(104), Addr(112), Addr(200), Addr(204), <<W16 - 1, W16 - 4>> }
SpliceWord == <<57005, 48879>>

SpliceHeaders ==
  { [text |-> [k \in 1..NumText |->
                 IF \E j \in 1..MaxSpliceSlots : SlotIndex(j) = k
                 THEN pick[CHOOSE j \in 1..MaxSpliceSlots : SlotIndex(j) = k]
                 ELSE VacantDescriptor],
     data |-> [k \in 1..NumData |->
                 IF \E j \in 1..MaxSpliceSlots : SlotIndex(j) = NumText + k
                 THEN pick[CHOOSE j \in 1..MaxSpliceSlots : SlotIndex(j) = NumText + k]
                 ELSE VacantDescriptor],
     bss_addr |-> Addr(24576), bss_size |-> <<0, 64>>, entry_point |-> Addr(100)] :
    pick \in [1..MaxSpliceSlots -> SplicePool] }

\* dol_segment.loading + dol_segment.size exceeds u32
SumOverflows(a, b) == a[1] + b[1] + (a[2] + b[2]) \div W16 >= W16

\* the first descriptor of the chain at which the condition of the loop
\* evaluates loading + size with a sum beyond u32 (0 when none does): the
\* sum is evaluated only when loading <= addr holds
RECURSIVE ScanOverflow(_, _, _)
ScanOverflow(segs, k, addr) ==
  IF k > Len(segs) THEN 0
  ELSE IF Le32(segs[k].loading, addr) /\ SumOverflows(segs[k].loading, segs[k].size) THEN k
  ELSE ScanOverflow(segs, k + 1, addr)

\* patch_dol_addr_32 in a build with or without overflow checks: with them
\* the sum beyond u32 panics, unless the loop returned an I/O error before
\* it came to that descriptor; without them the sum wraps
patch_dol_addr_32_build(h, bytes, addr, new, overflow_checks) ==
  LET k == ScanOverflow(Descriptors(h), 1, addr)
      before == patch_descriptors(SubSeq(Descriptors(h), 1, k - 1), 1, bytes, addr, new, 0)
  IN  IF ~overflow_checks \/ k = 0 THEN patch_dol_addr_32(h, bytes, addr, new)
      ELSE IF ~before.ok /\ before.err.kind = "Io" THEN before
      ELSE Err([kind |-> "Panic"])

InitSplice ==
  /\ sp_header \in SpliceHeaders
  /\ sp_bytes = SpliceBuffer
  /\ sp_addr \in SpliceAddrs
  /\ sp_new = SpliceWord
  /\ sp_result = None
  /\ IdleInsn
  /\ IdleDolHeader
  /\ IdleDiscHeader
  /\ IdleFst
  /\ IdlePatch
  /\ IdleGap
  /\ IdleStream
  /\ IdleSubstream
  /\ IdleGui

\* patch_dol_addr_32(header, bytes, addr, |_| new)
Splice ==
  /\ sp_result = None
  /\ \E overflow_checks \in BOOLEAN :
       sp_result' = Some(patch_dol_addr_32_build(sp_header, sp_bytes, sp_addr, sp_new,
                                                 overflow_checks))
  /\ UNCHANGED <<sp_header, sp_bytes, sp_addr, sp_new>>
  /\ UNCHANGED <<varsInsn, varsDolHeader, varsDiscHeader, varsFst, varsPatch, varsGap, varsStream, varsSubstream, varsGui>>

NextSplice == Splice

SpecSplice == InitSplice /\ [][NextSplice]_vars

\* the descriptors whose load range [load, load + size) contains the address
Matched(h, addr) ==
  { k \in DOMAIN Descriptors(h) :
      /\ Le32(Descriptors(h)[k].loading, addr)
      /\ Lt32(Sub32(addr, Descriptors(h)[k].loading), Descriptors(h)[k].size) }

\* the file offset of the word of descriptor k: offset + (addr - load)
SpliceTarget(h, addr, k) ==
  ToNat(Descriptors(h)[k].offset) + ToNat(Sub32(addr, Descriptors(h)[k].loading))

\* C23: patch_dol_addr_32(header, bytes, a, f) returns Ok iff the load
\* range of at least one descriptor contains a, and the unresolved-address
\* error naming a when none does; on Ok the 4 bytes at
\* offset + (a - load) of every such descriptor hold the new word, big
\* endian, and every other byte and the length of the buffer are as before.
C23_Splice ==
  IsSome(sp_result) =>
    LET r == Get(sp_result)
        matched == Matched(sp_header, sp_addr)
    IN  /\ r.ok <=> matched # {}
        /\ matched = {} => r = Err([kind |-> "AddressNotFound", addr |-> sp_addr])
        /\ r.ok =>
             /\ Len(r.val) = Len(sp_bytes)
             /\ \A k \in matched :
                  LET target == SpliceTarget(sp_header, sp_addr, k)
                  IN  /\ target + 4 <= Len(r.val)
                      /\ SubSeq(r.val, target + 1, target + 4) = BE32(sp_new)
             /\ \A i \in 1..Len(sp_bytes) :
                  (\A k \in matched :
                     ~InRegion(i - 1, SpliceTarget(sp_header, sp_addr, k), 4))
                  => r.val[i] = sp_bytes[i]

(***************************************************************************)
(* Further claims about the patchers (Spec).                               *)
(***************************************************************************)
\* the descriptors of a header that are not vacant, as chain indices
Occupied(h) == { k \in DOMAIN Descriptors(h) : Descriptors(h)[k].offset # <<0, 0>> }

\* the file range [offset, offset + size) of descriptor k
FileStart(h, k) == ToNat(Descriptors(h)[k].offset)
FileSize(h, k) == ToNat(Descriptors(h)[k].size)

\* the layout invariant of a DOL image: its length is the largest
\* offset + size, and no two descriptors that are not vacant overlap in
\* file space
DolLayout(h, bytes) ==
  /\ total_length(h) = Len(bytes)
  /\ \A k, j \in Occupied(h) :
       k # j => Apart(FileStart(h, k), FileSize(h, k), FileStart(h, j), FileSize(h, j))

InputDolHeader == DolHeader_read_from_stream(fs_in).val
OutputDolHeader == DolHeader_read_from_stream(Get(fs_out)).val

DolPatched == ext = "dol" /\ Succeeded

\* C24: when the input DOL satisfies the layout invariant, the output of
\* patch_dol satisfies it too: total_length() of the rewritten header is
\* the output length, which is the input length plus the bytes appended,
\* and the file ranges of the appended descriptors lie inside the output
\* and overlap neither each other nor the original segments.
C24_DolLayoutPreserved ==
  (DolPatched /\ DolLayout(InputDolHeader, fs_in)) =>
    LET out == Get(fs_out)
        segments == Get(mod_file).segments
        appended == Occupied(OutputDolHeader) \ Occupied(InputDolHeader)
    IN  /\ Len(out) = Len(fs_in) + Len(Flatten([k \in 1..Len(segments) |-> segments[k].data]))
        /\ total_length(OutputDolHeader) = Len(out)
        /\ \A k \in appended :
             /\ FileStart(OutputDolHeader, k) + FileSize(OutputDolHeader, k) <= Len(out)
             /\ \A j \in Occupied(OutputDolHeader) :
                  k # j => Apart(FileStart(OutputDolHeader, k), FileSize(OutputDolHeader, k),
                                 FileStart(OutputDolHeader, j), FileSize(OutputDolHeader, j))

\* the fields of the disc header that the rewrite assigns
RewrittenFields == {"game_name", "dol_offset", "fst_size", "fst_max_size"}

\* the header has just been written to the destination
HeaderWritten == pc = "iso_write_dol"
DestinationHeader == GCDiscHeader_read_from_stream(Get(fs_out), 0).val

\* C25: the header written to the destination differs from the source
\* header only in this: the first len(game_name) bytes of the 0x3E0-byte
\* name field hold the configured name (the bytes after it keep their
\* values, the field keeps its length), dol_offset is the mod DOL offset,
\* and fst_size and fst_max_size are the byte length of the re-serialized
\* table; every other field is unchanged.
C25_HeaderRewrite ==
  HeaderWritten =>
    LET name == mod_data.config.game_name
    IN  /\ \A f \in DOMAIN SourceHeader \ RewrittenFields :
             DestinationHeader[f] = SourceHeader[f]
        /\ Len(DestinationHeader["game_name"]) = 992
        /\ \A i \in 1..992 :
             DestinationHeader["game_name"][i] =
               IF i <= Len(name) THEN name[i] ELSE SourceHeader["game_name"][i]
        /\ DestinationHeader["dol_offset"] = Get(mod_dol_offset)
        /\ DestinationHeader["fst_size"] = FromNat(Len(Get(fst_bytes)))
        /\ DestinationHeader["fst_max_size"] = FromNat(Len(Get(fst_bytes)))
        /\ SubSeq(Get(fs_out), 1, DiscHeaderLen) = GCDiscHeader_bytes(DestinationHeader)

\* the header is written with a name shorter than the name the source
\* holds, and with a table whose length differs from the source's
C25_Witness ==
  /\ HeaderWritten
  /\ SourceHeader["game_name"][Len(mod_data.config.game_name) + 1] # 0
  /\ FromNat(Len(Get(fst_bytes))) # SourceHeader["fst_size"]
  /\ Get(mod_dol_offset) # SourceHeader["dol_offset"]

\* the tree read from the table of the source disc
SourceFst ==
  FST_read_from_stream(fs_in, ToNat(SourceHeader["fst_offset"])).val.root

\* the places <<i, j>> of the files named Attract02_32.thp in a directory
\* named Video of the root
AttractPlaces(root) ==
  { place \in UNION { { <<i, j>> : j \in DOMAIN root.children[i].children } :
                        i \in { i \in DOMAIN root.children : root.children[i].dir } } :
      /\ root.children[place[1]].name = NameVideo
      /\ ~root.children[place[1]].children[place[2]].dir
      /\ root.children[place[1]].children[place[2]].name = NameAttract }

\* the entries below an entry: per entry its path of names, and the offset
\* and length of a file
RECURSIVE EntrySet(_, _)
EntrySet(entry, prefix) ==
  IF entry.dir
  THEN {[path |-> prefix, dir |-> TRUE]}
       \cup UNION { EntrySet(entry.children[i], Append(prefix, entry.children[i].name)) :
                      i \in DOMAIN entry.children }
  ELSE {[path |-> prefix, dir |-> FALSE, offset |-> entry.offset, length |-> entry.length]}

\* the entries of a tree with the length of Video/Attract02_32.thp set to 0
AttractRemoved(entries) ==
  { IF e.path = <<NameVideo, NameAttract>> /\ ~e.dir THEN [e EXCEPT !.length = <<0, 0>>] ELSE e :
    e \in entries }

\* the lookup of the attract file has just run
AttractStepDone == pc = "iso_dol"

PatchDolReturned == pc \in {"dol_write", "iso_gap"}

\* C27: after patch_dol succeeds the leading bytes of the output are the
\* serialization of the final DolHeader and the rest of the header region
\* [0, 0x100) is as in the input: no arena, entry-hook or branch splice
\* writes inside the region, also when a vacant descriptor (offset 0) has
\* a size and a load range that contains a patch address.
C27_HeaderIntegrity ==
  PatchDolReturned =>
    LET out == Get(output_bytes)
        image == DolHeader_bytes(Get(dol_header))
    IN  /\ SubSeq(out, 1, Len(image)) = image
        /\ SubSeq(out, Len(image) + 1, DolHeaderSlice)
             = SubSeq(Get(dol_bytes), Len(image) + 1, DolHeaderSlice)

(***************************************************************************)
(* Further claims about the gap search (SpecGap).                          *)
(***************************************************************************)
\* the half-open ranges (s, e) and (rs, re) have a byte in common
Intersects(gap, range) ==
  /\ Lt32(gap[1], range[2]) /\ Lt32(range[1], gap[2])
  /\ Lt32(gap[1], gap[2]) /\ Lt32(range[1], range[2])

\* convert_ranges_to_gaps has been called
GapsConverted == gp_pc \notin {"ranges", "gaps"}

\* C28: for every list of ranges get_ranges produces (the empty list of a
\* root-only table, a single range, ranges of length 0, ranges that
\* overlap or lie inside one another), convert_ranges_to_gaps returns
\* without failing, and every gap (s, e) it returns has s < e and
\* intersects no range of the list.
C28_GapSoundness ==
  GapsConverted =>
    /\ gp_gaps # None
    /\ \A i \in DOMAIN Get(gp_gaps) :
         /\ Lt32(Get(gp_gaps)[i][1], Get(gp_gaps)[i][2])
         /\ \A j \in DOMAIN Get(gp_ranges) :
              ~Intersects(Get(gp_gaps)[i], Get(gp_ranges)[j])

\* the failures that the validation steps of the two patchers return
ValidationFailures ==
  {"OutputExists", "DolHashMismatch", "IsoHashMismatch", "MissingSymbol",
   "NoAvailableDolSegment", "AddressNotFound", "NoSuitableGap"}

\* the configured hash, when there is one, is the digest of the input
HashVerified(expected) == expected # None => HexLower(Md5(fs_in)) = Get(expected)

\* patch_dol has returned Ok to patch_dol_file
DolValidated ==
  /\ ext = "dol" /\ pc = "dol_write"
  /\ mod_data.overwrite_output \/ fs_out = None
  /\ HashVerified(mod_data.config.expected_dol_hash)
  /\ dol_header # None /\ mod_file # None /\ output_bytes # None

\* the hash check, the parses, patch_dol and the gap allocation of
\* patch_iso_file have succeeded
IsoValidated ==
  /\ ext = "iso"
  /\ HashVerified(mod_data.config.expected_iso_hash)
  /\ header # None /\ fst # None /\ patched_dol_bytes # None
  /\ chosen_gap # None /\ mod_dol_offset # None

\* a step changes the destination only after the validation succeeded,
\* and no step changes the source
WriteAfterValidation ==
  /\ fs_out' # fs_out => (DolValidated \/ IsoValidated)
  /\ fs_in' = fs_in

\* after a validation failure the destination is the file that was there
\* before the run, or still does not exist
FailureLeavesDestination ==
  (\E kind \in ValidationFailures : FailedWith(kind)) =>
    fs_out \in {None, Some(OldDestination)}

\* C29: patch_dol_file writes the destination only after patch_dol returned
\* Ok, and patch_iso_file creates it only after the hash check, the parse
\* of header and table, the DOL patch and the gap allocation succeeded; so
\* a run that fails with an overwrite refusal, a hash mismatch, a missing
\* symbol, no vacant descriptor, an unresolved address or no suitable gap
\* neither creates nor modifies the destination, and the source is never
\* written.
C29_NoWriteBeforeValidation ==
  [][WriteAfterValidation /\ FailureLeavesDestination']_vars

\* a DOL run that may overwrite an existing destination fails for want of
\* a vacant descriptor, and the destination is the old file
C29_Witness ==
  /\ FailedWith("NoAvailableDolSegment")
  /\ mod_data.overwrite_output
  /\ fs_out = Some(OldDestination)

\* ---------------------------------------------------------------------
\* Further claims about the SubstreamReader (SpecSubstream)
\* ---------------------------------------------------------------------

\* the parent's cursor lies in [start, start + length]
CursorInWindow ==
  /\ (ss_inner < 0) = (ss_start < 0)
  /\ ss_start <= ss_inner
  /\ ss_inner - ss_start <= ss_length
\* a read returns bytes of the parent that lie in the window, from the
\* cursor on, and none at the end of the window
ReadInWindow ==
  (ss_op'.name = "read" /\ Get(ss_result').ok) =>
    LET val == Get(ss_result').val
    IN  /\ CursorInWindow
        /\ ss_inner - ss_start + Len(val) <= ss_length
        /\ ss_inner + Len(val) <= Len(ss_parent) \/ val = <<>>
        /\ val = SubSeq(ss_parent, ss_inner + 1, ss_inner + Len(val))
        /\ ss_inner - ss_start = ss_length => val = <<>>
\* a seek that fails leaves the parent's cursor where it was
FailedSeekStays ==
  (ss_op'.name = "seek" /\ ~Get(ss_result').ok) => ss_inner' = ss_inner

\* C30: after any sequence of reads and seeks of a SubstreamReader made
\* with new(inner, start, length) the parent's cursor lies in
\* [start, start + length]; a read returns no byte from outside the window
\* and nothing at the end of the window; and a seek that fails leaves the
\* position unchanged.
C30_SubstreamWindow ==
  CursorInWindow /\ [][CursorInWindow' /\ ReadInWindow /\ FailedSeekStays]_vars


====
